---- MODULE Spec2Model ----
(***************************************************************************)
(* Model of the doubly-connected edge list of path-processor               *)
(* (src/path-processor/src/path/dcel.rs) and of the part of split_comps    *)
(* that drives it.                                                         *)
(*                                                                         *)
(* Curves are Curve::Line segments between points with small integer       *)
(* coordinates.  On such points every floating point operation the DCEL    *)
(* performs on a line (at(0.5), winding, the linear root of                *)
(* intersection_y, the comparison at(t).x >= v.x) is exact, so the integer *)
(* arithmetic below computes what the code computes.  Query points are     *)
(* kept with doubled coordinates so that midpoints stay integral.          *)
(*                                                                         *)
(* Vec indices are 0-based as in the code: edges and faces are functions   *)
(* with domain 0..len-1; a face's contours list is a sequence whose i-th   *)
(* element (0-based) is contours[i+1].                                     *)
(***************************************************************************)
EXTENDS Integers, Sequences, FiniteSets, TLC

\* arg and ret are the input and the result of a function that is studied on
\* its own; they stay empty while a DCEL is built
VARIABLES vertices, edges, faces, pc, calls, last, arg, ret

vars == <<vertices, edges, faces, pc, calls, last, arg, ret>>

\* With(v, Op) is Op applied to v: the value v is written once and used under
\* the name Op gives it, like a let binding of the code
With(v, Op(_)) == Op(v)

(***************************************************************************)
(* Bounds and input domain                                                 *)
(***************************************************************************)
\* number of add_curve calls of one split_comps run
MaxCalls == 5

\* cluster positions: vertex id v (0-based) lies at PointOf[v+1]
\*   0, 1, 2: a triangle; 3, 4 and 5 lie inside it
PointOf ==
  << <<0, 0>>, <<4, 0>>, <<0, 4>>, <<1, 1>>, <<1, 2>>, <<2, 1>> >>

NumPts == Len(PointOf)

VertexIds == 0 .. (NumPts - 1)

P(v) == PointOf[v + 1]

\* the directed segments <<v1, v2>> a curve list may contain, in any order
\* and any number of times: the triangle 0-1-2 counter-clockwise, its side
\* 0-1 also backwards, the island 3-4, the chord 0-5-1 and 1-3, which
\* crosses 0-5
Curves ==
  { <<0, 1>>, <<1, 2>>, <<2, 0>>, <<1, 0>>, <<3, 4>>, <<1, 3>>, <<0, 5>>, <<5, 1>> }

FillRules == {"EvenOdd", "NonZero"}

\* closed paths, as the vertices they pass: the triangle 0-1-2, the island
\* 3-4 there and back, the bridge 1-3 there and back, and the triangle
\* 1-0-5 that shares the side 0-1 with the first one
ClosedPaths == { <<0, 1, 2, 0>>, <<3, 4, 3>>, <<1, 3, 1>>, <<1, 0, 5, 1>> }

\* add_curve calls in a run of the specification of closed paths
MaxPathCalls == 7

\* closed cubic curves (a = d), by the vertex they start and end at, with
\* what the DCEL reads of them: the direction they leave in (b - a), the
\* direction their reverse leaves in (c - a), the sign of winding(), the
\* doubled point at(0.5), and the doubled query points whose ray meets them
\* an odd number of times.
\*   (1,2) (5/3,5/3) (5/3,7/3) (1,2): a loop at vertex 4 that points to the
\*     right, counter-clockwise, through (1.5,2), with nothing inside;
\*   (1,1) (-1,3) (3,3) (1,1): a loop at vertex 3 around the segment 3-4 and
\*     the first loop, clockwise, through (1,2.5)
Loops ==
  { [v |-> 4, out |-> <<2, -1>>, back |-> <<2, 1>>, w |-> 1,
     mid |-> <<3, 4>>, inside |-> {}],
    [v |-> 3, out |-> <<-1, 1>>, back |-> <<1, 1>>, w |-> -1,
     mid |-> <<2, 5>>, inside |-> {<<2, 3>>, <<3, 4>>}] }

\* the segments of the specification with loops: none of them meets a loop
\* but in its vertex, and none has its middle at the height of a loop's
\* vertex to the left of it
LoopLines == { <<3, 4>>, <<1, 3>>, <<0, 1>>, <<1, 2>> }

\* add_curve calls in a run of the specification with loops
MaxLoopCalls == 4

(***************************************************************************)
(* Vec helpers                                                             *)
(***************************************************************************)
VecLen(f) == Cardinality(DOMAIN f)

Push(f, x) ==
  LET n == VecLen(f) IN [i \in 0 .. n |-> IF i < n THEN f[i] ELSE x]

SeqToSet(s) == {s[i] : i \in 1 .. Len(s)}

(***************************************************************************)
(* Geometry kernel and Curve::Line                                         *)
(***************************************************************************)
cross(u, w) == u[1] * w[2] - u[2] * w[1]

Line(a, b) == [a |-> a, b |-> b]

\* Curve::CubicBezier with d = a, a closed loop at the point a.  It is kept
\* by what the DCEL reads of it: out, the direction b - a it leaves a with;
\* back, the direction c - d it comes back from; w, the sign of winding();
\* mid, the doubled point at(0.5); inside, the doubled points from which the
\* ray to the right meets the loop an odd number of times.
CubicLoop(a, out, back, w, mid, inside) ==
  [a |-> a, b |-> a, out |-> out, back |-> back, w |-> w, mid |-> mid,
   inside |-> inside]

IsLoop(curve) == "mid" \in DOMAIN curve

\* Curve::QuadraticBezier: a and c are its end points, b its control point
QuadraticBezier(a, b, c) == [a |-> a, b |-> b, c |-> c]

IsQuad(curve) == "c" \in DOMAIN curve

is_line(curve) == ~IsLoop(curve) /\ ~IsQuad(curve)

reverse(curve) ==
  IF IsLoop(curve)
  THEN CubicLoop(curve.a, curve.back, curve.out, -curve.w, curve.mid, curve.inside)
  ELSE IF IsQuad(curve) THEN QuadraticBezier(curve.c, curve.b, curve.a)
  ELSE [a |-> curve.b, b |-> curve.a]

\* three times Curve::winding(), which for a quadratic curve is a number of
\* thirds; the DCEL reads the sign of a winding or of a sum of windings
winding(curve) ==
  IF IsLoop(curve) THEN 3 * curve.w
  ELSE IF IsQuad(curve)
  THEN 2 * cross(curve.a, curve.b) + 2 * cross(curve.b, curve.c) + cross(curve.a, curve.c)
  ELSE 3 * cross(curve.a, curve.b)

\* curve.at(0.0) and curve.at(1.0)
at_start(curve) == curve.a

at_end(curve) == IF IsQuad(curve) THEN curve.c ELSE curve.b

\* curve.at(0.5), with doubled coordinates; the quadratic curves of the
\* model have end points whose coordinates add up to even numbers
at_half(curve) ==
  IF IsLoop(curve) THEN curve.mid
  ELSE IF IsQuad(curve)
  THEN <<(curve.a[1] + 2 * curve.b[1] + curve.c[1]) \div 2,
         (curve.a[2] + 2 * curve.b[2] + curve.c[2]) \div 2>>
  ELSE <<curve.a[1] + curve.b[1], curve.a[2] + curve.b[2]>>

\* the AngleKey of a line is (atan2(dy, dx), 0, 0); it is kept as the
\* direction (dx, dy) and compared as atan2 compares, on (-pi, pi].  The
\* loops leave their point in directions no other curve has there, so the
\* two curvature terms of their keys never decide a comparison.
angle_key(curve) ==
  IF IsLoop(curve) THEN curve.out
  ELSE IF IsQuad(curve) THEN <<curve.b[1] - curve.a[1], curve.b[2] - curve.a[2]>>
  ELSE <<curve.b[1] - curve.a[1], curve.b[2] - curve.a[2]>>

\* 0: (-pi,0)   1: 0   2: (0,pi)   3: pi
KeyRank(k) ==
  IF k[2] < 0 THEN 0
  ELSE IF k[2] > 0 THEN 2
  ELSE IF k[1] < 0 THEN 3 ELSE 1

KeyLess(k1, k2) ==
  \/ KeyRank(k1) < KeyRank(k2)
  \/ KeyRank(k1) = KeyRank(k2) /\ cross(k1, k2) > 0

KeyEq(k1, k2) == KeyRank(k1) = KeyRank(k2) /\ cross(k1, k2) = 0

\* the sign of p + q * sqrt(d) for whole numbers p, q and d > 0
SignSurd(p, q, d) ==
  LET sp == IF p > 0 THEN 1 ELSE IF p < 0 THEN -1 ELSE 0
      sq == IF q > 0 THEN 1 ELSE IF q < 0 THEN -1 ELSE 0
  IN  IF sq = 0 THEN sp
      ELSE IF sp = 0 \/ sp = sq THEN sq
      ELSE IF p * p > q * q * d THEN sp
      ELSE IF p * p < q * q * d THEN sq
      ELSE 0

\* a root t = (-B + s * sqrt(D)) / (2A) of the quadratic curve's
\* intersection_y (s is 1 or -1, or 0 for the one root of D = 0) is counted
\* when 0 <= t < 1 and at(t).x >= v.x; with t * t = -(B * t + C) / A the
\* abscissa is linear in t
QuadRootCounts(curve, v2, A, B, C, D, s) ==
  LET sA  == IF A > 0 THEN 1 ELSE -1
      X2  == 2 * (curve.a[1] - 2 * curve.b[1] + curve.c[1])
      X1  == 4 * (curve.b[1] - curve.a[1])
      X0  == 2 * curve.a[1] - v2[1]
      L1  == A * X1 - X2 * B
      L0  == A * X0 - X2 * C
  IN  /\ sA * SignSurd(-B, s, D) >= 0
      /\ sA * SignSurd(-B - 2 * A, s, D) < 0
      /\ SignSurd(2 * A * L0 - L1 * B, s * L1, D) >= 0

\* QuadraticBezier::intersection_y through find_roots_quadratic(a2, a1, a0):
\* the linear case when a2 = 0, no root for a negative discriminant, one for
\* a zero discriminant, two otherwise.  The equation is taken twice over,
\* for the doubled point.
QuadRayHits(curve, v2) ==
  LET A == 2 * (curve.a[2] - 2 * curve.b[2] + curve.c[2])
      B == 4 * (curve.b[2] - curve.a[2])
      C == 2 * curve.a[2] - v2[2]
      D == B * B - 4 * A * C
      count(s) == IF QuadRootCounts(curve, v2, A, B, C, D, s) THEN 1 ELSE 0
      num == IF B > 0 THEN -C ELSE C
      den == IF B > 0 THEN B ELSE -B
      X2  == 2 * (curve.a[1] - 2 * curve.b[1] + curve.c[1])
      X1  == 4 * (curve.b[1] - curve.a[1])
  IN  IF A = 0
      THEN IF B = 0
           THEN IF C = 0 /\ 2 * curve.a[1] >= v2[1] THEN 1 ELSE 0
           ELSE IF /\ num >= 0
                   /\ num < den
                   /\ 2 * curve.a[1] * den * den + X1 * num * den + X2 * num * num
                        >= v2[1] * den * den
                THEN 1 ELSE 0
      ELSE IF D < 0 THEN 0
      ELSE IF D = 0 THEN count(0)
      ELSE count(1) + count(-1)

\* Number of roots t of curve.intersection_y(v.y) that face_contains_vertex
\* counts: 0 <= t < 1 and curve.at(t).x >= v.x.  v2 is the doubled point.
\* find_roots_linear(a1, a0) yields the root 0 when a1 = a0 = 0, no root
\* when only a1 = 0, and -a0/a1 otherwise.
RayHits(curve, v2) ==
  LET a1  == curve.b[2] - curve.a[2]
      num == IF a1 > 0 THEN v2[2] - 2 * curve.a[2] ELSE 2 * curve.a[2] - v2[2]
      den == IF a1 > 0 THEN 2 * a1 ELSE -2 * a1
      dx  == curve.b[1] - curve.a[1]
  IN  IF IsLoop(curve) THEN (IF v2 \in curve.inside THEN 1 ELSE 0)
      ELSE IF IsQuad(curve) THEN QuadRayHits(curve, v2)
      ELSE IF a1 = 0
      THEN IF 2 * curve.a[2] = v2[2] /\ 2 * curve.a[1] >= v2[1] THEN 1 ELSE 0
      ELSE IF /\ num >= 0
              /\ num < den
              /\ 2 * curve.a[1] * den + 2 * num * dx >= v2[1] * den
           THEN 1 ELSE 0

(***************************************************************************)
(* Vertex: out_edges is a BTreeMap<AngleKey, usize>, kept as a set of      *)
(* entries with pairwise different keys                                    *)
(***************************************************************************)
Entry(k, e) == [key |-> k, edge |-> e]

contains_key(m, k) == \E r \in m : KeyEq(r.key, k)

insert(m, k, e) == {r \in m : ~KeyEq(r.key, k)} \cup {Entry(k, e)}

MinEntry(m) == CHOOSE r \in m : \A s \in m : s = r \/ KeyLess(r.key, s.key)

MaxEntry(m) == CHOOSE r \in m : \A s \in m : s = r \/ KeyLess(s.key, r.key)

\* None is <<>>, Some((before, after)) is <<before, after>>
search_outgoing(m, k) ==
  IF m = {} \/ contains_key(m, k) THEN <<>>
  ELSE LET below  == {r \in m : KeyLess(r.key, k)}
           above  == {r \in m : KeyLess(k, r.key)}
           before == IF below # {} THEN MaxEntry(below) ELSE MaxEntry(m)
           after  == IF above # {} THEN MinEntry(above) ELSE MinEntry(m)
       IN  <<before.edge, after.edge>>

\* None is -1
search(m, k) ==
  IF contains_key(m, k) THEN (CHOOSE r \in m : KeyEq(r.key, k)).edge ELSE -1

(***************************************************************************)
(* Edge, Face, Dcel                                                        *)
(***************************************************************************)
Edge_new(curve, twin) ==
  [curve |-> curve, twin |-> twin, next |-> 0, prev |-> 0,
   canonicity |-> 0, face |-> 0]

Face_new == [contours |-> <<>>, fill_number |-> 0, is_outer |-> FALSE]

Face_outer == [contours |-> <<>>, fill_number |-> 0, is_outer |-> TRUE]

pair_of_edges(E, curve) ==
  LET len == VecLen(E)
  IN  Push(Push(E, Edge_new(curve, len + 1)), Edge_new(reverse(curve), len))

\* EdgeLoopIterator: the edges yielded from `edge` until next comes back to
\* it.  The walk is cut after VecLen(E) edges: by then an edge would repeat.
RECURSIVE LoopRec(_, _, _, _, _)
LoopRec(E, first, cur, acc, fuel) ==
  IF fuel = 0 THEN acc
  ELSE LET nxt == E[cur].next
       IN  IF nxt = first THEN Append(acc, cur)
           ELSE LoopRec(E, first, nxt, Append(acc, cur), fuel - 1)

edge_loop_iter(E, edge) == LoopRec(E, edge, edge, <<>>, VecLen(E))

LoopSet(E, edge) == SeqToSet(edge_loop_iter(E, edge))

\* check_problematic_cycles panics iff the walk meets an edge twice before
\* it is back at `edge`, that is iff it is not back after VecLen(E) edges
problematic_cycle(E, edge) ==
  LET lp == edge_loop_iter(E, edge) IN E[lp[Len(lp)]].next # edge

RECURSIVE CountHits(_, _, _)
CountHits(E, lp, v2) ==
  IF lp = <<>> THEN 0
  ELSE LET e == Head(lp)
       IN  (IF E[e].face = E[E[e].twin].face THEN 0
            ELSE RayHits(E[e].curve, v2))
           + CountHits(E, Tail(lp), v2)

RECURSIVE CountContours(_, _, _)
CountContours(E, contours, v2) ==
  IF contours = <<>> THEN 0
  ELSE CountHits(E, edge_loop_iter(E, Head(contours)), v2)
       + CountContours(E, Tail(contours), v2)

face_contains_vertex(E, F, face, v2) ==
  With(CountContours(E, F[face].contours, v2) % 2 = 1, LAMBDA odd :
    IF F[face].is_outer THEN ~odd ELSE odd)

\* unreachable!() is -1
get_face_from_point(E, F, v2) ==
  With({i \in DOMAIN F : face_contains_vertex(E, F, i, v2)}, LAMBDA hits :
    IF hits = {} THEN -1
    ELSE CHOOSE i \in hits : \A j \in hits : i <= j)

\* a slip in assign_face: only the representative edge is relabelled
assign_face_first_only(E, face, edge) == [E EXCEPT ![edge].face = face]

assign_face(E, face, edge) ==
  LET lp == LoopSet(E, edge)
  IN  [e \in DOMAIN E |-> IF e \in lp THEN [E[e] EXCEPT !.face = face] ELSE E[e]]

RECURSIVE assign_faces(_, _, _)
assign_faces(E, face, cs) ==
  IF cs = <<>> THEN E
  ELSE assign_faces(assign_face(E, face, Head(cs)), face, Tail(cs))

Dcel(V, E, F, panic) ==
  [vertices |-> V, edges |-> E, faces |-> F, panic |-> panic]

RECURSIVE SumWinding(_, _)
SumWinding(E, lp) ==
  IF lp = <<>> THEN 0
  ELSE winding(E[Head(lp)].curve) + SumWinding(E, Tail(lp))

\* contours.iter().partition(|e| face_contains_vertex(face, edges[e].curve.at(0.5))):
\* the contours for which the test gives `want`, in their order
RECURSIVE partition(_, _, _, _, _)
partition(E, F, face, cs, want) ==
  IF cs = <<>> THEN <<>>
  ELSE With(partition(E, F, face, Tail(cs), want), LAMBDA rest :
         IF face_contains_vertex(E, F, face, at_half(E[Head(cs)].curve)) = want
         THEN <<Head(cs)>> \o rest ELSE rest)

\* contours.retain(|e| !edges[e]) for a bool_vec given as a set
RECURSIVE retain_not_in(_, _)
retain_not_in(cs, set) ==
  IF cs = <<>> THEN <<>>
  ELSE IF Head(cs) \in set THEN retain_not_in(Tail(cs), set)
       ELSE <<Head(cs)>> \o retain_not_in(Tail(cs), set)

\* a slip in the registration: the reverse edge is never registered
insert_both_forward_only(V, v1, v2, ak1, ak2, e1, e2) ==
  [V EXCEPT ![v1] = insert(@, ak1, e1)]

\* vertices[v1].out_edges.insert(ak1, e1); vertices[v2].out_edges.insert(ak2, e2)
insert_both(V, v1, v2, ak1, ak2, e1, e2) ==
  LET V1 == [V EXCEPT ![v1] = insert(@, ak1, e1)]
  IN  [V1 EXCEPT ![v2] = insert(@, ak2, e2)]

cycles_ok(E, e1, e2) == ~problematic_cycle(E, e1) /\ ~problematic_cycle(E, e2)

(***************************************************************************)
(* add_curve_canonicity, branch by branch                                  *)
(***************************************************************************)
\* dcel.rs 162-167: two new half-edges between two new vertices
link_pair(E, e1, e2, face) ==
  [E EXCEPT ![e1].next = e2, ![e1].prev = e2,
            ![e2].next = e1, ![e2].prev = e1,
            ![e1].face = face, ![e2].face = face]

\* dcel.rs 320-325: a new pair hanging from the old vertex of e1
link_one(E, e1, e2, e1lo, t1ro) ==
  [E EXCEPT ![e1].prev = t1ro, ![e1].next = e2,
            ![e2].prev = e1, ![e2].next = e1lo,
            ![t1ro].next = e1, ![e1lo].prev = e2]

\* dcel.rs 236-243: a new pair spliced into the rings of two old vertices
link_both(E, e1, e2, e1lo, e2lo, t1ro, t2ro) ==
  [E EXCEPT ![t1ro].next = e1, ![e2lo].prev = e1,
            ![t2ro].next = e2, ![e1lo].prev = e2,
            ![e1].next = e2lo, ![e1].prev = t1ro,
            ![e2].next = e1lo, ![e2].prev = t2ro]

\* dcel.rs 228-233: a new self-loop between the same two neighbours
link_self(E, edge, twin, e1lo, t1ro) ==
  [E EXCEPT ![edge].next = edge, ![edge].prev = edge,
            ![t1ro].next = twin, ![e1lo].prev = twin,
            ![twin].next = e1lo, ![twin].prev = t1ro]

\* a slip in new_pair: the reverse edge is counted down
new_pair_signed(E, curve, canonicity_change) ==
  [pair_of_edges(E, curve) EXCEPT ![VecLen(E)].canonicity = @ + canonicity_change,
                                  ![VecLen(E) + 1].canonicity = @ - canonicity_change]

\* dcel.rs 157-158, 212-213, 307-308: the new pair, the forward edge counted
new_pair(E, curve, canonicity_change) ==
  [pair_of_edges(E, curve) EXCEPT ![VecLen(E)].canonicity = @ + canonicity_change]

\* a slip in same_key: the twin is counted as well
same_key_and_twin(E, e1, canonicity_change) ==
  [E EXCEPT ![e1].canonicity = @ + canonicity_change,
            ![E[e1].twin].canonicity = @ + canonicity_change]

\* dcel.rs 301-302: a matching edge exists, only its canonicity goes up
same_key(E, e1, canonicity_change) ==
  [E EXCEPT ![e1].canonicity = @ + canonicity_change]

\* dcel.rs 153-208: neither vertex has outgoing edges
add_neither(V, E, F, v1, v2, curve, canonicity_change) ==
  LET ak1 == angle_key(curve)
      ak2 == angle_key(reverse(curve))
      p0  == at_half(curve)
      e1  == VecLen(E)
      e2  == e1 + 1
      V2  == insert_both(V, v1, v2, ak1, ak2, e1, e2)
  IN  With(get_face_from_point(E, F, p0), LAMBDA face :
      With(new_pair(E, curve, canonicity_change), LAMBDA E1 :
        IF face = -1 THEN Dcel(V, E, F, "unreachable")
        ELSE IF v1 # v2
        THEN With(link_pair(E1, e1, e2, face), LAMBDA E2 :
               LET F2 == [F EXCEPT ![face].contours = Append(@, e1)]
               IN  IF cycles_ok(E2, e1, e2) THEN Dcel(V2, E2, F2, "")
                   ELSE Dcel(V, E, F, "cycle"))
        ELSE With([E1 EXCEPT ![e1].next = e1, ![e1].prev = e1,
                             ![e2].next = e2, ![e2].prev = e2], LAMBDA E2 :
             With(winding(E2[e1].curve) > 0, LAMBDA conv :
               LET new_face == VecLen(F)
                   F2   == Push(F, Face_new)
                   edge == IF conv THEN e1 ELSE e2
                   twin == IF conv THEN e2 ELSE e1
               IN  With([F2 EXCEPT ![new_face].contours = Append(@, edge)], LAMBDA F3 :
                   With([E2 EXCEPT ![edge].face = new_face], LAMBDA E3 :
                   With(partition(E3, F3, face, F3[face].contours, TRUE),
                        LAMBDA old_contours :
                   With(partition(E3, F3, face, F3[face].contours, FALSE),
                        LAMBDA new_contours :
                     LET F4 == [F3 EXCEPT ![face].contours = old_contours]
                         E4 == assign_faces(E3, new_face, new_contours)
                         F5 == [F4 EXCEPT ![new_face].contours = @ \o new_contours]
                         F6 == [F5 EXCEPT ![face].contours = Append(@, twin)]
                     IN  With([E4 EXCEPT ![twin].face = face], LAMBDA E5 :
                           IF cycles_ok(E5, e1, e2) THEN Dcel(V2, E5, F6, "")
                           ELSE Dcel(V, E, F, "cycle"))))))))))

\* dcel.rs 304-337: exactly one vertex has outgoing edges
add_one(V, E, F, v1_, v2_, curve, canonicity_change, found1) ==
  LET e1_ == VecLen(E)
      e1  == IF found1 THEN e1_ ELSE e1_ + 1
      e2  == IF found1 THEN e1_ + 1 ELSE e1_
      v1  == IF found1 THEN v1_ ELSE v2_
      v2  == IF found1 THEN v2_ ELSE v1_
      ak1 == IF found1 THEN angle_key(curve) ELSE angle_key(reverse(curve))
      ak2 == IF found1 THEN angle_key(reverse(curve)) ELSE angle_key(curve)
      V2  == insert_both(V, v1, v2, ak1, ak2, e1, e2)
  IN  With(new_pair(E, curve, canonicity_change), LAMBDA E1 :
      With(search_outgoing(V[v1], angle_key(E1[e1].curve)), LAMBDA so :
        IF so = <<>> THEN Dcel(V, E, F, "unwrap")
        ELSE LET e1lo == so[1]
                 e1ro == so[2]
                 t1ro == E1[e1ro].twin
             IN  With(link_one(E1, e1, e2, e1lo, t1ro), LAMBDA E2 :
                 With([E2 EXCEPT ![e1].face = E2[e1lo].face], LAMBDA E3 :
                 With([E3 EXCEPT ![e2].face = E3[e1lo].face], LAMBDA E4 :
                   IF cycles_ok(E4, e1, e2) THEN Dcel(V2, E4, F, "")
                   ELSE Dcel(V, E, F, "cycle"))))))

fuse_contours_new_face(V, E, F, e1, e2, e1lo) ==
  LET face  == E[e1lo].face
      E1    == [E EXCEPT ![e1].face = face, ![e2].face = face]
      edges_ == LoopSet(E1, e1)
      F1    == [F EXCEPT ![face].contours = Append(retain_not_in(@, edges_), e1)]
  IN  Dcel(V, E1, Push(F1, Face_new), "")

\* dcel.rs 253-265: the new edge joined two contours, which fuse
fuse_contours(V, E, F, e1, e2, e1lo) ==
  LET face  == E[e1lo].face
      E1    == [E EXCEPT ![e1].face = face, ![e2].face = face]
      edges_ == LoopSet(E1, e1)
      F1    == [F EXCEPT ![face].contours = Append(retain_not_in(@, edges_), e1)]
  IN  Dcel(V, E1, F1, "")

\* dcel.rs 265-298: the new edge closed a contour on itself, a face splits off
split_face(V, E, F, e1, e2, e1lo) ==
  LET new_face == VecLen(F)
      F1       == Push(F, Face_new)
      old_face == E[e1lo].face
      edges_   == LoopSet(E, e1) \cup LoopSet(E, e2)
      F2       == [F1 EXCEPT ![old_face].contours = retain_not_in(@, edges_)]
  IN  With(SumWinding(E, edge_loop_iter(E, e1)), LAMBDA winding_ :
        LET edge == IF winding_ > 0 THEN e1 ELSE e2
            twin == IF winding_ > 0 THEN e2 ELSE e1
        IN  With(assign_face(E, new_face, edge), LAMBDA E1 :
            With([F2 EXCEPT ![new_face].contours = Append(@, edge)], LAMBDA F3 :
            With(partition(E1, F3, old_face, F3[old_face].contours, TRUE),
                 LAMBDA old_contours :
            With(partition(E1, F3, old_face, F3[old_face].contours, FALSE),
                 LAMBDA new_contours :
              LET F4 == [F3 EXCEPT ![old_face].contours = old_contours]
                  E2 == assign_faces(E1, new_face, new_contours)
                  F5 == [F4 EXCEPT ![new_face].contours = @ \o new_contours]
                  E3 == assign_face(E2, old_face, twin)
                  F6 == [F5 EXCEPT ![old_face].contours = Append(@, twin)]
              IN  Dcel(V, E3, F6, ""))))))

\* dcel.rs 209-303: both vertices have outgoing edges
add_both(V, E, F, v1, v2, curve, canonicity_change) ==
  LET ak1 == angle_key(curve)
      ak2 == angle_key(reverse(curve))
  IN  With(search_outgoing(V[v1], ak1), LAMBDA so1 :
        IF so1 = <<>>
        THEN \* a matching edge exists: only its canonicity goes up
             With(search(V[v1], ak1), LAMBDA e1 :
               IF e1 = -1 THEN Dcel(V, E, F, "unwrap")
               ELSE Dcel(V, same_key(E, e1, canonicity_change), F, ""))
        ELSE With(search_outgoing(V[v2], ak2), LAMBDA so2 :
               IF so2 = <<>> THEN Dcel(V, E, F, "unwrap")
               ELSE
               With(new_pair(E, curve, canonicity_change), LAMBDA E1 :
               With(winding(E1[VecLen(E)].curve) > 0, LAMBDA conv :
                 LET e1lo == so1[1]
                     e1ro == so1[2]
                     e1   == VecLen(E)
                     e2   == e1 + 1
                     e2lo == so2[1]
                     e2ro == so2[2]
                     t1ro == E1[e1ro].twin
                     t2ro == E1[e2ro].twin
                     diff_contours == e2lo \notin LoopSet(E1, e1lo)
                     edge == IF conv THEN e1 ELSE e2
                     twin == IF conv THEN e2 ELSE e1
                     V2 == insert_both(V, v1, v2, ak1, ak2, e1, e2)
                 IN  With(IF v1 = v2 /\ e1lo = e2lo /\ e1ro = e2ro
                          THEN link_self(E1, edge, twin, e1lo, t1ro)
                          ELSE link_both(E1, e1, e2, e1lo, e2lo, t1ro, t2ro), LAMBDA E2 :
                       IF ~cycles_ok(E2, e1, e2) THEN Dcel(V, E, F, "cycle")
                       ELSE IF diff_contours THEN fuse_contours(V2, E2, F, e1, e2, e1lo)
                       ELSE split_face(V2, E2, F, e1, e2, e1lo))))))

\* the branch add_curve_canonicity takes
branch_of(V, v1, v2, curve) ==
  LET found1 == V[v1] # {}
      found2 == V[v2] # {}
  IN  IF ~found1 /\ ~found2 THEN "neither"
      ELSE IF found1 /\ found2
           THEN IF search_outgoing(V[v1], angle_key(curve)) = <<>> THEN "same_key"
                ELSE "both"
           ELSE "one"

add_curve_canonicity(V, E, F, v1, v2, curve, canonicity_change) ==
  LET found1 == V[v1] # {}
      found2 == V[v2] # {}
  IN  IF ~found1 /\ ~found2 THEN add_neither(V, E, F, v1, v2, curve, canonicity_change)
      ELSE IF found1 /\ found2 THEN add_both(V, E, F, v1, v2, curve, canonicity_change)
      ELSE add_one(V, E, F, v1, v2, curve, canonicity_change, found1)

add_curve(V, E, F, v1, v2, curve) == add_curve_canonicity(V, E, F, v1, v2, curve, 1)

(***************************************************************************)
(* split_comps: the sub-curves it hands to add_curve meet only in cluster  *)
(* vertices, because every curve was cut at all its intersections          *)
(***************************************************************************)
orient(p, q, r) ==
  cross(<<q[1] - p[1], q[2] - p[2]>>, <<r[1] - p[1], r[2] - p[2]>>)

\* r lies on the segment p-q and is not one of its ends
OnOpenSegment(p, q, r) ==
  /\ orient(p, q, r) = 0
  /\ r # p /\ r # q
  /\ (r[1] - p[1]) * (r[1] - q[1]) <= 0
  /\ (r[2] - p[2]) * (r[2] - q[2]) <= 0

\* the segments p-q and r-s meet somewhere else than in a common end
SegmentsCross(p, q, r, s) ==
  /\ {p, q} # {r, s}
  /\ \/ /\ orient(p, q, r) * orient(p, q, s) < 0
        /\ orient(r, s, p) * orient(r, s, q) < 0
     \/ OnOpenSegment(p, q, r) \/ OnOpenSegment(p, q, s)
     \/ OnOpenSegment(r, s, p) \/ OnOpenSegment(r, s, q)

Planar(E, v1, v2) ==
  \A e \in DOMAIN E :
    ~SegmentsCross(P(v1), P(v2), E[e].curve.a, E[e].curve.b)

(***************************************************************************)
(* vec_utils.rs: RemoveIndices for Vec                                     *)
(***************************************************************************)
Min(S) == CHOOSE m \in S : \A x \in S : m <= x

\* indices.sort(); indices.dedup()
RECURSIVE sort_dedup(_)
sort_dedup(S) ==
  IF S = {} THEN <<>> ELSE <<Min(S)>> \o sort_dedup(S \ {Min(S)})

\* the loop `for i in ik+1..len` with the state (self, ik, k); indices[k]
\* is read before k is compared with anything, and panics when k is past
\* the end of indices
RECURSIVE remove_indices_loop(_, _, _, _, _)
remove_indices_loop(self, indices, i, ik, k) ==
  IF i >= Len(self)
  THEN IF k > Len(self) THEN [vec |-> self, panic |-> "overflow"]
       ELSE [vec |-> SubSeq(self, 1, Len(self) - k), panic |-> ""]
  ELSE IF k >= Len(indices) THEN [vec |-> self, panic |-> "index"]
  ELSE IF i = indices[k + 1]
       THEN remove_indices_loop(self, indices, i + 1, ik, k + 1)
       ELSE remove_indices_loop([self EXCEPT ![ik + 1] = self[i + 1]],
                                indices, i + 1, ik + 1, k)

\* self is a Vec given as a sequence, indices a Vec<usize> of 0-based places
remove_indices(self, indices) ==
  IF indices = <<>> THEN [vec |-> self, panic |-> ""]
  ELSE LET sorted == sort_dedup(SeqToSet(indices))
       IN  remove_indices_loop(self, sorted, sorted[1] + 1, sorted[1], 1)

(***************************************************************************)
(* remove_wedges                                                           *)
(***************************************************************************)
\* take_while(|e| e != edges[e].twin).all(|e| face(e) == face(twin(e)))
RECURSIVE is_wedge_rec(_, _)
is_wedge_rec(E, lp) ==
  IF lp = <<>> THEN TRUE
  ELSE LET e == Head(lp)
       IN  IF e = E[e].twin THEN TRUE
           ELSE /\ E[e].face = E[E[e].twin].face
                /\ is_wedge_rec(E, Tail(lp))

is_wedge(E, edge) == is_wedge_rec(E, edge_loop_iter(E, edge))

\* dcel.rs 367-376: walk back along prev to the start of the wedge.
\* "needle": the previous edge is the twin, the whole contour is a wedge;
\* "start": e is the first edge before the wedge; "hang": the walk came
\* round without either, the loop of the code would not end
RECURSIVE wedge_start(_, _, _)
wedge_start(E, e, fuel) ==
  IF E[e].face # E[E[e].twin].face THEN [kind |-> "start", e |-> e]
  ELSE IF E[e].prev = E[e].twin THEN [kind |-> "needle", e |-> e]
  ELSE IF fuel = 0 THEN [kind |-> "hang", e |-> e]
  ELSE wedge_start(E, E[e].prev, fuel - 1)

\* dcel.rs 361-389: the loop `while !set[e]` on contour i of face j
RECURSIVE contour_walk(_, _, _, _, _, _)
contour_walk(E, F, j, i, e, set) ==
  IF e \in set \/ ~is_wedge(E, e)
  THEN [kind |-> "done", e |-> e, edges |-> E, faces |-> F]
  ELSE LET ws == wedge_start(E, e, VecLen(E))
       IN  IF ws.kind # "start"
           THEN [kind |-> ws.kind, e |-> ws.e, edges |-> E, faces |-> F]
           ELSE LET e_ == ws.e
                    en == E[E[E[e_].next].twin].next
                    E1 == [E EXCEPT ![e_].next = en, ![en].prev = e_]
                    F1 == [F EXCEPT ![j].contours[i + 1] = e_]
                IN  contour_walk(E1, F1, j, i, e_, set \cup {e})

\* dcel.rs 357-390: the loop over the contours of face j; a needle pushes
\* e on indices and leaves the loop (break 'outer)
RECURSIVE contours_loop(_, _, _, _)
contours_loop(E, F, j, i) ==
  IF i >= Len(F[j].contours)
  THEN [kind |-> "done", indices |-> <<>>, edges |-> E, faces |-> F]
  ELSE LET r == contour_walk(E, F, j, i, F[j].contours[i + 1], {})
       IN  IF r.kind = "needle"
           THEN [kind |-> "done", indices |-> <<r.e>>, edges |-> r.edges, faces |-> r.faces]
           ELSE IF r.kind = "hang"
           THEN [kind |-> "hang", indices |-> <<>>, edges |-> E, faces |-> F]
           ELSE contours_loop(r.edges, r.faces, j, i + 1)

\* dcel.rs 352-394: the loop over the faces
RECURSIVE faces_loop(_, _, _, _)
faces_loop(V, E, F, j) ==
  IF j >= VecLen(F) THEN Dcel(V, E, F, "")
  ELSE LET r == contours_loop(E, F, j, 0)
           x == remove_indices(r.faces[j].contours, r.indices)
       IN  IF r.kind = "hang" THEN Dcel(V, E, F, "hang")
           ELSE IF x.panic # "" THEN Dcel(V, E, F, x.panic)
           ELSE faces_loop(V, r.edges, [r.faces EXCEPT ![j].contours = x.vec], j + 1)

remove_wedges(V, E, F) == faces_loop(V, E, F, 0)

(***************************************************************************)
(* assign_face_fill_numbers                                                *)
(***************************************************************************)
\* the edges of all the contours of a face, in the order they are visited
RECURSIVE contour_edges(_, _)
contour_edges(E, contours) ==
  IF contours = <<>> THEN <<>>
  ELSE edge_loop_iter(E, Head(contours)) \o contour_edges(E, Tail(contours))

twin_fill_number_swapped(E, F, face, e) ==
  F[face].fill_number + E[e].canonicity - E[E[e].twin].canonicity

\* dcel.rs 423-424: let fill_number = ...
twin_fill_number(E, F, face, e) ==
  F[face].fill_number - E[e].canonicity + E[E[e].twin].canonicity

\* dcel.rs 414-429: the edges es of `face` still to visit
RECURSIVE fill_edges(_, _, _, _, _, _)
fill_edges(E, F, face, es, queue, assigned) ==
  IF es = <<>> THEN [faces |-> F, queue |-> queue, assigned |-> assigned]
  ELSE LET e == Head(es)
           t == E[e].twin
           twin_face == E[t].face
           fill_number == twin_fill_number(E, F, face, e)
       IN  IF twin_face \in assigned
           THEN fill_edges(E, F, face, Tail(es), queue, assigned)
           ELSE fill_edges(E, [F EXCEPT ![twin_face].fill_number = fill_number],
                           face, Tail(es), Append(queue, twin_face),
                           assigned \cup {twin_face})

\* dcel.rs 410-430: the loop `while !iteration_queue.is_empty()`
RECURSIVE fill_queue(_, _, _, _)
fill_queue(E, F, queue, assigned) ==
  IF queue = <<>> THEN F
  ELSE LET face == Head(queue)
           r == fill_edges(E, F, face, contour_edges(E, F[face].contours),
                           Tail(queue), assigned)
       IN  fill_queue(E, r.faces, r.queue, r.assigned)

assign_face_fill_numbers(E, F) == fill_queue(E, F, <<0>>, {0})

(***************************************************************************)
(* simplify_faces                                                          *)
(***************************************************************************)
\* the % of Rust on i32: the remainder has the sign of the dividend
rem(a, n) == IF a >= 0 THEN a % n ELSE -((-a) % n)

\* a slip in face_visible: odd is tested as remainder 1
face_visible_remainder_one(F, face, fill_rule) ==
  IF fill_rule = "EvenOdd" THEN rem(F[face].fill_number, 2) = 1
  ELSE F[face].fill_number # 0

face_visible(F, face, fill_rule) ==
  IF fill_rule = "EvenOdd" THEN rem(F[face].fill_number, 2) # 0
  ELSE F[face].fill_number # 0

\* fill_face.rs 16-19 with the iterators of dcel.rs 524-525: the contours of
\* a face, each as the curves of the edges of its loop
FillFace_new(E, contours) ==
  [contours |->
     [i \in 1 .. Len(contours) |->
        LET lp == edge_loop_iter(E, contours[i])
        IN  [j \in 1 .. Len(lp) |-> E[lp[j]].curve]]]

\* dcel.rs 522-528, from face fr on
RECURSIVE get_face_contours_from(_, _, _, _)
get_face_contours_from(E, F, fill_rule, fr) ==
  IF fr >= VecLen(F) THEN <<>>
  ELSE IF face_visible(F, fr, fill_rule)
       THEN <<FillFace_new(E, F[fr].contours)>>
              \o get_face_contours_from(E, F, fill_rule, fr + 1)
       ELSE get_face_contours_from(E, F, fill_rule, fr + 1)

get_face_contours(E, F, fill_rule) == get_face_contours_from(E, F, fill_rule, 0)

\* dcel.rs 439-450: edges_to_remove, as the set of the edges marked true.
\* The only assignment of the loop stores false.
RECURSIVE edges_to_remove(_, _, _, _, _)
edges_to_remove(E, F, fill_rule, e, marked) ==
  IF e >= VecLen(E) THEN marked
  ELSE LET t == E[e].twin
       IN  IF t \in marked THEN edges_to_remove(E, F, fill_rule, e + 1, marked)
           ELSE IF face_visible(F, E[e].face, fill_rule) = face_visible(F, E[t].face, fill_rule)
           THEN edges_to_remove(E, F, fill_rule, e + 1, marked \ {e})
           ELSE edges_to_remove(E, F, fill_rule, e + 1, marked)

\* dcel.rs 454-513: one edge e and its twin are taken out
collapse_edge(E, F, e) ==
  LET t  == E[e].twin
      ep == E[e].prev
      en == E[e].next
      tp == E[t].prev
      tn == E[t].next
      E1 == IF ep # t THEN [E EXCEPT ![ep].next = tn, ![tn].prev = ep] ELSE E
      E2 == IF en # t THEN [E1 EXCEPT ![en].prev = tp, ![tp].next = en] ELSE E1
  IN  IF E2[e].face = E2[t].face
      THEN LET edge_set == (IF en # t THEN LoopSet(E2, en) ELSE {})
                             \cup (IF ep # t THEN LoopSet(E2, ep) ELSE {})
               c1 == retain_not_in(F[E2[e].face].contours, edge_set)
               c2 == IF ep # t THEN Append(c1, ep) ELSE c1
               c3 == IF en # t THEN Append(c2, en) ELSE c2
           IN  [edges |-> E2, faces |-> [F EXCEPT ![E2[e].face].contours = c3]]
      ELSE LET et == IF ep # t THEN ep ELSE en
               edge_set == LoopSet(E2, et) \cup {e, t}
               swap == F[E2[t].face].is_outer
               keep_face   == IF swap THEN E2[t].face ELSE E2[e].face
               remove_face == IF swap THEN E2[e].face ELSE E2[t].face
               F1 == [F EXCEPT ![keep_face].contours = retain_not_in(@, edge_set)]
               F2 == [F1 EXCEPT ![remove_face].contours = retain_not_in(@, edge_set)]
               E3 == assign_faces(E2, keep_face, F2[remove_face].contours)
               old_contours == F2[remove_face].contours
               F3 == [F2 EXCEPT ![remove_face].contours = <<>>]
               F4 == [F3 EXCEPT ![keep_face].contours = Append(@ \o old_contours, et)]
               E4 == assign_face(E3, keep_face, et)
           IN  [edges |-> E4, faces |-> F4]

\* dcel.rs 453: for e in (0..edges.len()).filter(|i| edges_to_remove[i])
RECURSIVE collapse_all(_, _, _, _)
collapse_all(E, F, marked, e) ==
  IF e >= VecLen(E) THEN [edges |-> E, faces |-> F]
  ELSE IF e \in marked
       THEN LET r == collapse_edge(E, F, e)
            IN  collapse_all(r.edges, r.faces, marked, e + 1)
       ELSE collapse_all(E, F, marked, e + 1)

simplify_faces(E, F, fill_rule) ==
  collapse_all(E, F, edges_to_remove(E, F, fill_rule, 0, {}), 0)

(***************************************************************************)
(* The state machine                                                       *)
(***************************************************************************)
Init ==
  /\ vertices = [v \in VertexIds |-> {}]
  /\ edges = <<>>
  /\ faces = [i \in {0} |-> Face_outer]
  /\ pc = "build"
  /\ calls = 0
  /\ last = [op |-> "new", v1 |-> 0, v2 |-> 0, branch |-> "", panic |-> ""]
  /\ arg = <<>>
  /\ ret = <<>>

\* the state after a call on the DCEL that returned r
Returned(r, op, v1, v2, branch) ==
  /\ vertices' = r.vertices
  /\ edges' = r.edges
  /\ faces' = r.faces
  /\ pc' = IF r.panic = "" THEN "build" ELSE "panic"
  /\ last' = [op |-> op, v1 |-> v1, v2 |-> v2, branch |-> branch, panic |-> r.panic]

AddCurve(v1, v2) ==
  /\ pc = "build"
  /\ UNCHANGED <<arg, ret>>
  /\ calls < MaxCalls
  /\ <<v1, v2>> \in Curves
  /\ Planar(edges, v1, v2)
  /\ LET curve == Line(P(v1), P(v2))
     IN  Returned(add_curve(vertices, edges, faces, v1, v2, curve),
                  "add_curve", v1, v2, branch_of(vertices, v1, v2, curve))
  /\ calls' = calls + 1

\* the state after remove_wedges returned r
Wedged(r) ==
  /\ edges' = r.edges
  /\ faces' = r.faces
  /\ pc' = IF r.panic = "" THEN "wedged" ELSE "panic"
  /\ last' = [op |-> "remove_wedges", v1 |-> 0, v2 |-> 0,
              branch |-> "", panic |-> r.panic]

\* split_comps, after its last add_curve
RemoveWedges ==
  /\ pc = "build"
  /\ UNCHANGED <<arg, ret>>
  /\ Wedged(remove_wedges(vertices, edges, faces))
  /\ UNCHANGED <<vertices, calls>>

AssignFaceFillNumbers ==
  /\ pc = "wedged"
  /\ UNCHANGED <<arg, ret>>
  /\ faces' = assign_face_fill_numbers(edges, faces)
  /\ pc' = "filled"
  /\ last' = [op |-> "assign_face_fill_numbers", v1 |-> 0, v2 |-> 0,
              branch |-> "", panic |-> ""]
  /\ UNCHANGED <<vertices, edges, calls>>

\* the state after simplify_faces returned r
Simplified(r) ==
  /\ edges' = r.edges
  /\ faces' = r.faces

SimplifyFaces(fill_rule) ==
  /\ pc = "filled"
  /\ UNCHANGED <<arg, ret>>
  /\ Simplified(simplify_faces(edges, faces, fill_rule))
  /\ pc' = "simplified"
  /\ last' = [op |-> "simplify_faces", v1 |-> 0, v2 |-> 0,
              branch |-> fill_rule, panic |-> ""]
  /\ UNCHANGED <<vertices, calls>>

Next ==
  \/ \E v1, v2 \in VertexIds : AddCurve(v1, v2)
  \/ RemoveWedges
  \/ AssignFaceFillNumbers
  \/ \E fill_rule \in FillRules : SimplifyFaces(fill_rule)

Spec == Init /\ [][Next]_vars

\* splitting.rs 60-76: the add_curve calls for the curves path[i], path[i+1]
\* of a curve list, in their order
RECURSIVE add_curves(_, _, _)
add_curves(d, path, i) ==
  IF i >= Len(path) \/ d.panic # "" THEN d
  ELSE add_curves(add_curve(d.vertices, d.edges, d.faces, path[i], path[i + 1],
                            Line(P(path[i]), P(path[i + 1]))),
                  path, i + 1)

\* the curve list is a list of closed paths
AddPath(path) ==
  /\ pc = "build"
  /\ UNCHANGED <<arg, ret>>
  /\ calls + Len(path) - 1 <= MaxPathCalls
  /\ \A i \in 1 .. (Len(path) - 1) : Planar(edges, path[i], path[i + 1])
  /\ Returned(add_curves(Dcel(vertices, edges, faces, ""), path, 1),
              "add_path", path[1], path[2], "")
  /\ calls' = calls + Len(path) - 1

\* add_curve for a segment, in the specification with loops
AddLine(v1, v2) ==
  /\ pc = "build"
  /\ UNCHANGED <<arg, ret>>
  /\ calls < MaxLoopCalls
  /\ <<v1, v2>> \in LoopLines
  /\ Planar(edges, v1, v2)
  /\ LET curve == Line(P(v1), P(v2))
     IN  Returned(add_curve(vertices, edges, faces, v1, v2, curve),
                  "add_curve", v1, v2, branch_of(vertices, v1, v2, curve))
  /\ calls' = calls + 1

\* add_curve(v, v, curve) for a closed cubic curve.  Whether the ray from
\* at(0.5) meets the curve itself in at(0.5) hangs on the rounding of the
\* root, so both outcomes are taken (self_hit).
AddLoop(loop, self_hit) ==
  /\ pc = "build"
  /\ UNCHANGED <<arg, ret>>
  /\ calls < MaxLoopCalls
  /\ LET curve == CubicLoop(P(loop.v), loop.out, loop.back, loop.w, loop.mid,
                            loop.inside \cup (IF self_hit THEN {loop.mid} ELSE {}))
     IN  Returned(add_curve(vertices, edges, faces, loop.v, loop.v, curve),
                  "add_curve", loop.v, loop.v,
                  branch_of(vertices, loop.v, loop.v, curve))
  /\ calls' = calls + 1

NextLoops ==
  \/ \E v1, v2 \in VertexIds : AddLine(v1, v2)
  \/ \E loop \in Loops, self_hit \in BOOLEAN : AddLoop(loop, self_hit)

SpecLoops == Init /\ [][NextLoops]_vars

NextClosed ==
  \/ \E path \in ClosedPaths : AddPath(path)
  \/ RemoveWedges
  \/ AssignFaceFillNumbers
  \/ \E fill_rule \in FillRules : SimplifyFaces(fill_rule)

SpecClosed == Init /\ [][NextClosed]_vars

(***************************************************************************)
(* Properties of the DCEL while it is built                                *)
(***************************************************************************)
Built == pc = "build"

NumEdges == VecLen(edges)

NumFaces == VecLen(faces)

\* the vertex a half-edge starts from
origin(E, e) == CHOOSE v \in VertexIds : P(v) = E[e].curve.a

\* the walk along next from e comes back to e and meets no edge twice
SimpleCycle(E, e) ==
  LET lp == edge_loop_iter(E, e)
  IN  /\ E[lp[Len(lp)]].next = e
      /\ Cardinality(SeqToSet(lp)) = Len(lp)

\* the places <<face, i>> of the contours lists that name an edge of e's loop
Representatives(E, F, e) ==
  LET lp == LoopSet(E, e)
  IN  {r \in (DOMAIN F) \X (1 .. VecLen(E)) :
         r[2] <= Len(F[r[1]].contours) /\ F[r[1]].contours[r[2]] \in lp}

\* the last call was an add_curve that pushed a new pair of half-edges
NewPair == last'.op = "add_curve" /\ VecLen(edges') = VecLen(edges) + 2

\* C1: after any sequence of add_curve calls, every half-edge e has
\* twin(twin(e)) = e, twin(e) # e, next(prev(e)) = e and prev(next(e)) = e
C1_TwinNextPrev ==
  Built =>
    \A e \in DOMAIN edges :
      /\ edges[e].twin \in DOMAIN edges
      /\ edges[e].next \in DOMAIN edges
      /\ edges[e].prev \in DOMAIN edges
      /\ edges[edges[e].twin].twin = e
      /\ edges[e].twin # e
      /\ edges[edges[e].prev].next = e
      /\ edges[edges[e].next].prev = e

\* C2: after any sequence of add_curve calls the walk along next from any
\* half-edge is a simple cycle, and check_problematic_cycles never panics
C2_SimpleCycles ==
  /\ last.panic # "cycle"
  /\ Built => \A e \in DOMAIN edges : SimpleCycle(edges, e)

\* C3: after any sequence of add_curve calls every next-loop has exactly one
\* representative in the contours of exactly one face, and every half-edge
\* of the loop has that face in its face field
C3_OneContourPerLoop ==
  Built =>
    \A e \in DOMAIN edges :
      LET reps == Representatives(edges, faces, e)
      IN  /\ Cardinality(reps) = 1
          /\ \A r \in reps : edges[e].face = r[1]

\* a face with two contours next to a face that was split off

\* every half-edge is in the out_edges of its origin under its angle key
Registered(V, E) ==
  \A e \in DOMAIN E :
    \E r \in V[origin(E, e)] :
      r.edge = e /\ KeyEq(r.key, angle_key(E[e].curve))

C5_SameKeyFrame ==
  [][ (last'.op = "add_curve" /\ last'.branch = "same_key") =>
        /\ pc' = "build"
        /\ vertices' = vertices
        /\ faces' = faces
        /\ \E r \in vertices[last'.v1] :
             /\ KeyEq(r.key, angle_key(Line(P(last'.v1), P(last'.v2))))
             /\ edges' = [edges EXCEPT ![r.edge].canonicity = @ + 1] ]_vars

\* the same curve was added again inside a DCEL with an inner face
C5_Witness ==
  /\ Built
  /\ last.branch = "same_key"
  /\ NumFaces >= 2

\* C7 as stated: a newly inserted curve has canonicity +1 on its forward
\* half-edge and -1 on its reverse
C7_AsStated ==
  [][ NewPair =>
        /\ edges'[VecLen(edges)].canonicity = 1
        /\ edges'[VecLen(edges) + 1].canonicity = -1 ]_vars

\* C7: a newly inserted curve has canonicity +1 on its forward half-edge
\* and 0 on its reverse, whichever branch of add_curve inserts it
C7_NewPairCanonicity ==
  [][ NewPair =>
        /\ edges'[VecLen(edges)].canonicity = 1
        /\ edges'[VecLen(edges) + 1].canonicity = 0
        /\ edges'[VecLen(edges)].curve = Line(P(last'.v1), P(last'.v2))
        /\ edges'[VecLen(edges) + 1].curve = Line(P(last'.v2), P(last'.v1)) ]_vars

\* pairs were inserted by each of the three inserting branches
C7_Witness ==
  /\ Built
  /\ NumEdges >= 6
  /\ last.branch = "one"
  /\ NumFaces >= 2

(***************************************************************************)
(* Fill numbers                                                            *)
(***************************************************************************)
RECURSIVE SumOut(_, _)
SumOut(E, entries) ==
  IF entries = {} THEN 0
  ELSE LET x == CHOOSE y \in entries : TRUE
       IN  E[x.edge].canonicity - E[E[x.edge].twin].canonicity
             + SumOut(E, entries \ {x})

\* the curves added so far form closed paths: at every vertex the path
\* leaves as many times as it arrives
Balanced == \A v \in VertexIds : SumOut(edges, vertices[v]) = 0

FillRelation ==
  /\ faces[0].fill_number = 0
  /\ \A e \in DOMAIN edges :
       faces[edges[edges[e].twin].face].fill_number - faces[edges[e].face].fill_number
         = edges[edges[e].twin].canonicity - edges[e].canonicity

\* C6: after assign_face_fill_numbers on a built DCEL the outer face has
\* fill number 0 and, for every half-edge e,
\* fill(face(twin(e))) - fill(face(e)) = canonicity(twin(e)) - canonicity(e).
\* It is stated for the DCEL of closed paths, the one case where fill
\* numbers with this relation exist.
C6_FillNumbers == (pc = "filled" /\ Balanced) => FillRelation

(***************************************************************************)
(* simplify_faces                                                          *)
(***************************************************************************)
ContourLoopEdges(E, F) ==
  UNION { LoopSet(E, F[f].contours[i]) : <<f, i>> \in
            { <<g, k>> \in (DOMAIN F) \X (1..VecLen(E)) : k <= Len(F[g].contours) } }

\* C8: after simplify_faces(fill_rule) no half-edge is left on a contour
\* loop of any face with face(e) and face(twin(e)) of the same visibility
\* under fill_rule.
C8_SameVisibilityCollapsed ==
  pc = "simplified" =>
    \A e \in ContourLoopEdges(edges, faces) :
      face_visible(faces, edges[e].face, last.branch)
        # face_visible(faces, edges[edges[e].twin].face, last.branch)

(***************************************************************************)
(* remove_wedges                                                           *)
(***************************************************************************)
\* a contour that is entirely its own twin
Needle(E, c) == \A e \in LoopSet(E, c) : E[e].twin \in LoopSet(E, c)

\* C9: remove_wedges does not panic, drops every needle contour from the
\* contours of its face and keeps every other contour listed, however many
\* needles a face has and wherever they stand in the list.
C9_NeedlesDropped ==
  [][ last'.op = "remove_wedges" =>
        /\ last'.panic = ""
        /\ \A f \in DOMAIN faces :
             /\ \A c \in SeqToSet(faces'[f].contours) : ~Needle(edges', c)
             /\ \A c \in SeqToSet(faces[f].contours) :
                  ~Needle(edges, c) =>
                    \E d \in SeqToSet(faces'[f].contours) :
                      LoopSet(edges', d) \subseteq LoopSet(edges, c) ]_vars

\* C10: after remove_wedges no contour loop holds a half-edge whose twin is
\* on the same loop (spurs have been cut out by rerouting next and prev),
\* and each contour id is an edge of the loop that was retained.
C10_SpursRerouted ==
  (last.op = "remove_wedges" /\ last.panic = "") =>
    \A f \in DOMAIN faces : \A c \in SeqToSet(faces[f].contours) :
      \A e \in LoopSet(edges, c) : edges[e].twin \notin LoopSet(edges, c)

(***************************************************************************)
(* The number of faces                                                     *)
(***************************************************************************)
\* some contour loop passes through both v1 and v2
OnCommonLoop(E, v1, v2) ==
  \E e \in DOMAIN E :
    \E a, b \in LoopSet(E, e) : origin(E, a) = v1 /\ origin(E, b) = v2

MaxFill == 3

\* the DCEL of the triangles 0-1-2 and 1-0-5, which share the side 0-1
TwoTriangles ==
  add_curves(add_curves(Dcel([v \in VertexIds |-> {}], <<>>,
                             [i \in {0} |-> Face_outer], ""),
                        <<0, 1, 2, 0>>, 1),
             <<1, 0, 5, 1>>, 1)

\* the DCEL d with any fill numbers on its inner faces
WithAnyFill(d) ==
  /\ vertices = d.vertices
  /\ edges = d.edges
  /\ \E n \in [DOMAIN d.faces \ {0} -> (-MaxFill) .. MaxFill] :
       faces = [f \in DOMAIN d.faces |->
                  IF f = 0 THEN d.faces[f]
                  ELSE [d.faces[f] EXCEPT !.fill_number = n[f]]]

InitFaces ==
  /\ WithAnyFill(TwoTriangles)
  /\ pc = "filled_any"
  /\ calls = 0
  /\ last = [op |-> "new", v1 |-> 0, v2 |-> 0, branch |-> "", panic |-> ""]
  /\ arg = <<>>
  /\ ret = <<>>

GetFaceContours(fill_rule) ==
  /\ pc = "filled_any"
  /\ arg' = fill_rule
  /\ ret' = get_face_contours(edges, faces, fill_rule)
  /\ pc' = "returned"
  /\ last' = [last EXCEPT !.op = "get_face_contours"]
  /\ UNCHANGED <<vertices, edges, faces, calls>>

NextFaces == \E fill_rule \in FillRules : GetFaceContours(fill_rule)

SpecFaces == InitFaces /\ [][NextFaces]_vars

\* a fill number is odd, whatever its sign
Odd(n) == n % 2 = 1

VisibleFaces(fill_rule) ==
  {f \in DOMAIN faces :
     IF fill_rule = "EvenOdd" THEN Odd(faces[f].fill_number)
     ELSE faces[f].fill_number # 0}

\* C12: get_face_contours(fill_rule) returns one FillFace for every visible
\* face and none for the others, in the order of the face ids; a face is
\* visible when its fill number is odd, negative odd numbers too (EvenOdd),
\* or is not 0 (NonZero)
C12_FaceContours ==
  last.op = "get_face_contours" =>
    /\ Len(ret) = Cardinality(VisibleFaces(arg))
    /\ \A f \in VisibleFaces(arg) :
         ret[1 + Cardinality({g \in VisibleFaces(arg) : g < f})]
           = FillFace_new(edges, faces[f].contours)

\* EvenOdd with a negative odd fill number in face 1 and an even one, not 0,
\* in face 2
C12_Witness ==
  /\ last.op = "get_face_contours"
  /\ arg = "EvenOdd"
  /\ VecLen(faces) = 3
  /\ faces[1].fill_number = -3
  /\ faces[2].fill_number = 2
  /\ Len(ret) = 1

(***************************************************************************)
(* Triangulation: geometry on points with whole coordinates                *)
(***************************************************************************)
\* Ordering: Less is -1, Equal is 0, Greater is 1
Cmp(x, y) == IF x < y THEN -1 ELSE IF x > y THEN 1 ELSE 0

canonical(a, b) == IF a[2] = b[2] THEN Cmp(b[1], a[1]) ELSE Cmp(a[2], b[2])

Sub(a, b) == <<a[1] - b[1], a[2] - b[2]>>

dot(u, w) == u[1] * w[1] + u[2] * w[2]

\* (u).angle_between(w) > 0: atan2(cross, dot) is positive when cross > 0,
\* and is pi when cross = 0 and dot < 0
angle_between_positive(u, w) ==
  cross(u, w) > 0 \/ (cross(u, w) = 0 /\ dot(u, w) < 0)

\* polygons are sequences of points; the point after and before index i
NextIdx(len, i) == IF i = len THEN 1 ELSE i + 1

PrevIdx(len, i) == IF i = 1 THEN len ELSE i - 1

RECURSIVE polygon_winding_from(_, _)
polygon_winding_from(poly, i) ==
  IF i > Len(poly) THEN 0
  ELSE cross(poly[i], poly[NextIdx(Len(poly), i)]) + polygon_winding_from(poly, i + 1)

polygon_winding(poly) == polygon_winding_from(poly, 1)

\* Some(..) of segment_equivalent: only whether there is one is used
segment_equivalent_is_some(poly) == Len(poly) = 2 \/ polygon_winding(poly) = 0

same_direction(u, w) == cross(u, w) = 0 /\ dot(u, w) <= 0

\* the first index (from 1) whose two neighbours do not lie on one line
\* through it, Len(poly) + 1 when there is none
RECURSIVE simplify_istart(_, _)
simplify_istart(poly, i) ==
  LET len == Len(poly)
  IN  IF i > len THEN i
      ELSE IF ~same_direction(Sub(poly[NextIdx(len, i)], poly[i]),
                              Sub(poly[PrevIdx(len, i)], poly[i]))
           THEN i
           ELSE simplify_istart(poly, i + 1)

\* polygon.rs 228-232: order is the indices still to visit
RECURSIVE simplify_collect(_, _, _)
simplify_collect(poly, order, pts) ==
  IF order = <<>> THEN pts
  ELSE LET i == Head(order)
           keep == ~same_direction(Sub(poly[NextIdx(Len(poly), i)], poly[i]),
                                   Sub(pts[Len(pts)], poly[i]))
       IN  simplify_collect(poly, Tail(order), IF keep THEN Append(pts, poly[i]) ELSE pts)

\* the index of the point with the least (greatest) x, the first of them
RECURSIVE extreme_x(_, _, _, _)
extreme_x(poly, i, best, least) ==
  IF i > Len(poly) THEN best
  ELSE IF (least /\ poly[best][1] > poly[i][1]) \/ (~least /\ poly[best][1] < poly[i][1])
       THEN extreme_x(poly, i + 1, i, least)
       ELSE extreme_x(poly, i + 1, best, least)

simplify_polygon(poly) ==
  LET len == Len(poly)
      istart == simplify_istart(poly, 1)
  IN  IF len < 3 THEN poly
      ELSE IF istart > len
           THEN <<poly[extreme_x(poly, 2, 1, TRUE)], poly[extreme_x(poly, 2, 1, FALSE)]>>
           ELSE simplify_collect(poly,
                                 [k \in 1 .. (len - 1) |->
                                    IF istart + k <= len THEN istart + k ELSE istart + k - len],
                                 <<poly[istart]>>)

(***************************************************************************)
(* Triangulation: EdgeKey and the BTreeMap keyed by it                     *)
(***************************************************************************)
EdgeKey(a, b) == [a |-> a, b |-> b]

EdgeKey_eq(s, o) == (s.a = o.a /\ s.b = o.b) \/ (s.a = o.b /\ s.b = o.a)

\* the comparison that never returns: cmp calls other.cmp(self) and that one
\* calls cmp again with the same two keys
Diverges == 2

Reversed(c) == IF c = Diverges THEN Diverges ELSE -c

\* edge.rs 35-58; flips counts the calls of other.cmp(self) so far
RECURSIVE EdgeKey_cmp_from(_, _, _)
EdgeKey_cmp_from(s, o, flips) ==
  IF EdgeKey_eq(s, o) THEN 0
  ELSE IF flips >= 2 THEN Diverges
  ELSE With(canonical(s.a, s.b), LAMBDA c :
       With(IF c < 0 THEN s.a ELSE s.b, LAMBDA min :
       With(IF c < 0 THEN s.b ELSE s.a, LAMBDA max :
       With(Cmp(cross(Sub(max, min), Sub(o.a, min)), 0), LAMBDA cmp1 :
       With(Cmp(cross(Sub(max, min), Sub(o.b, min)), 0), LAMBDA cmp2 :
         IF c = 0 THEN Reversed(EdgeKey_cmp_from(o, s, flips + 1))
         ELSE IF cmp1 = 0 THEN cmp2
         ELSE IF cmp2 = 0 THEN cmp1
         ELSE IF cmp1 # cmp2 THEN Reversed(EdgeKey_cmp_from(o, s, flips + 1))
         ELSE cmp1)))))

EdgeKey_cmp(s, o) == EdgeKey_cmp_from(s, o, 0)

\* A BTreeMap<EdgeKey, usize> of at most 11 entries is one leaf: a sequence
\* of [key, val] in the order of the keys.  The search runs from the left
\* while key.cmp(k) is Greater and stops at the first k that is not.
RECURSIVE find_key_index(_, _, _)
find_key_index(m, key, i) ==
  IF i > Len(m) THEN [idx |-> i, found |-> FALSE, panic |-> FALSE]
  ELSE With(EdgeKey_cmp(key, m[i].key), LAMBDA c :
         IF c = Diverges THEN [idx |-> i, found |-> FALSE, panic |-> TRUE]
         ELSE IF c = 1 THEN find_key_index(m, key, i + 1)
         ELSE [idx |-> i, found |-> c = 0, panic |-> FALSE])

map_diverges(m, key) == find_key_index(m, key, 1).panic

map_contains_key(m, key) == find_key_index(m, key, 1).found

\* BTreeMap::insert: the value is replaced when an equal key is there
map_insert(m, key, val) ==
  With(find_key_index(m, key, 1), LAMBDA r :
    IF r.found THEN [m EXCEPT ![r.idx].val = val]
    ELSE SubSeq(m, 1, r.idx - 1) \o <<[key |-> key, val |-> val]>>
           \o SubSeq(m, r.idx, Len(m)))

map_remove(m, key) ==
  With(find_key_index(m, key, 1), LAMBDA r :
    IF r.found THEN SubSeq(m, 1, r.idx - 1) \o SubSeq(m, r.idx + 1, Len(m))
    ELSE m)

\* range((Unbounded, Excluded(key))).next_back(), None is -1
range_below_back(m, key) ==
  With(find_key_index(m, key, 1), LAMBDA r :
    IF r.idx > 1 THEN m[r.idx - 1].val ELSE -1)

\* range((Excluded(key), Unbounded)).next(), None is -1
range_above_first(m, key) ==
  With(find_key_index(m, key, 1), LAMBDA r :
    With(IF r.found THEN r.idx + 1 ELSE r.idx, LAMBDA i :
      IF i <= Len(m) THEN m[i].val ELSE -1))

(***************************************************************************)
(* Triangulation: DcelVertex, Edge, partition_to_monotone                  *)
(***************************************************************************)
\* the order of the variants of VertexType
TypeRank(t) ==
  CASE t = "End" -> 0 [] t = "Start" -> 1 [] t = "Split" -> 2
    [] t = "RegularLeft" -> 3 [] t = "RegularRight" -> 4 [] t = "Merge" -> 5

DcelVertex_new(prev, cur, next) ==
  LET cp     == canonical(cur, prev)
      cn     == canonical(cur, next)
      reflex == angle_between_positive(Sub(prev, cur), Sub(next, cur))
      type_  == IF cp = 1 /\ cn = 1 THEN (IF reflex THEN "Split" ELSE "Start")
                ELSE IF cp = -1 /\ cn = -1 THEN (IF reflex THEN "Merge" ELSE "End")
                ELSE IF cn = 1 THEN "RegularLeft"
                ELSE "RegularRight"
  IN  [type_ |-> type_, cur |-> cur, outgoing |-> <<>>, incoming |-> <<>>,
       next_edge |-> 0, prev_edge |-> 0]

\* None is <<>>
search_cyclic(m, key) ==
  IF m = <<>> \/ map_contains_key(m, key) THEN <<>>
  ELSE With(range_below_back(m, key), LAMBDA b :
       With(range_above_first(m, key), LAMBDA a :
         << IF b # -1 THEN b ELSE m[Len(m)].val,
            IF a # -1 THEN a ELSE m[1].val >>))

DcelVertex_search_outgoing(vertex, key) == search_cyclic(vertex.outgoing, key)

DcelVertex_search_incoming(vertex, key) == search_cyclic(vertex.incoming, key)

DcelVertex_cmp(v, o) ==
  LET c == canonical(v.cur, o.cur)
  IN  IF c = 0 THEN Cmp(TypeRank(v.type_), TypeRank(o.type_)) ELSE c

TriEdge_new(a, b) == [key |-> EdgeKey(a, b), helper_vertex |-> 0, prev |-> 0, next |-> 0]

\* mod.rs 117-138 for the index i (from 0) of a polygon: v and e are i, not
\* the places the new vertex and edge were pushed at
partition_add_vertex(vs, es, poly, i) ==
  LET len  == Len(poly)
      prev == poly[PrevIdx(len, i + 1)]
      cur  == poly[i + 1]
      next == poly[NextIdx(len, i + 1)]
      v    == i
      e    == i
      vs1  == Push(vs, DcelVertex_new(prev, cur, next))
  IN  With(Push(es, TriEdge_new(cur, next)), LAMBDA es1 :
      With([vs1 EXCEPT ![v].next_edge = e,
                       ![v].outgoing = map_insert(@, es1[e].key, e)], LAMBDA vs2 :
        IF v > 0
        THEN With(vs2[v - 1].next_edge, LAMBDA p :
             With([vs2 EXCEPT ![v].prev_edge = p,
                              ![v].incoming = map_insert(@, es1[p].key, p)], LAMBDA vs3 :
               LET es2 == [es1 EXCEPT ![vs3[v].next_edge].prev = vs3[v].prev_edge]
                   es3 == [es2 EXCEPT ![vs3[v].prev_edge].next = vs3[v].next_edge]
               IN  [vertices |-> vs3, edges |-> es3]))
        ELSE [vertices |-> vs2, edges |-> es1]))

RECURSIVE partition_add_vertices(_, _, _, _)
partition_add_vertices(vs, es, poly, i) ==
  IF i >= Len(poly) THEN [vertices |-> vs, edges |-> es]
  ELSE With(partition_add_vertex(vs, es, poly, i), LAMBDA r :
         partition_add_vertices(r.vertices, r.edges, poly, i + 1))

\* mod.rs 140-146: close the loop, at vertex 0
partition_close_loop(vs, es) ==
  LET len == VecLen(vs)
      p   == vs[len - 1].next_edge
  IN  With([vs EXCEPT ![0].prev_edge = p,
                      ![0].incoming = map_insert(@, es[p].key, p)], LAMBDA vs1 :
        LET es1 == [es EXCEPT ![vs1[0].next_edge].prev = vs1[0].prev_edge]
            es2 == [es1 EXCEPT ![vs1[0].prev_edge].next = vs1[0].next_edge]
        IN  [vertices |-> vs1, edges |-> es2])

\* mod.rs 111-147
RECURSIVE partition_add_polygons(_, _, _)
partition_add_polygons(vs, es, contours) ==
  IF contours = <<>> THEN [vertices |-> vs, edges |-> es]
  ELSE LET poly == Head(contours)
       IN  IF Len(poly) < 3 \/ segment_equivalent_is_some(poly)
           THEN partition_add_polygons(vs, es, Tail(contours))
           ELSE With(partition_add_vertices(vs, es, poly, 0), LAMBDA r :
                With(partition_close_loop(r.vertices, r.edges), LAMBDA c :
                  partition_add_polygons(c.vertices, c.edges, Tail(contours))))

\* mod.rs 150-152: the indices from the greatest vertex down.  Two vertices
\* that compare Equal come in either order of the unstable sort.
RECURSIVE sorted_down(_, _)
sorted_down(vs, rest) ==
  IF rest = {} THEN <<>>
  ELSE LET i == CHOOSE x \in rest :
                  \A y \in rest : DcelVertex_cmp(vs[x], vs[y]) >= 0
       IN  <<i>> \o sorted_down(vs, rest \ {i})

\* mod.rs 84-97; seen is the set of the edges marked true
RECURSIVE check_cycle_from(_, _, _, _)
check_cycle_from(es, e, c, seen) ==
  IF c = e THEN TRUE
  ELSE IF c \in seen THEN FALSE
  ELSE check_cycle_from(es, e, es[c].next, seen \cup {c})

check_cycle(es, e) == check_cycle_from(es, e, es[e].next, {e})

\* mod.rs 50-82
split_diagonal(vs, es, v1, v2) ==
  LET e12 == VecLen(es)
      e21 == VecLen(es) + 1
  IN  With(Push(Push(es, TriEdge_new(vs[v1].cur, vs[v2].cur)),
                TriEdge_new(vs[v2].cur, vs[v1].cur)), LAMBDA es1 :
      With(DcelVertex_search_outgoing(vs[v1], es1[e12].key), LAMBDA so1 :
      With(DcelVertex_search_incoming(vs[v1], es1[e21].key), LAMBDA si1 :
      With(DcelVertex_search_outgoing(vs[v2], es1[e21].key), LAMBDA so2 :
      With(DcelVertex_search_incoming(vs[v2], es1[e12].key), LAMBDA si2 :
        IF so1 = <<>> \/ si1 = <<>> \/ so2 = <<>> \/ si2 = <<>>
        THEN [vertices |-> vs, edges |-> es1, panic |-> "unwrap"]
        ELSE LET e1lo == so1[1]
                 e1ri == si1[2]
                 e2lo == so2[1]
                 e2ri == si2[2]
             IN  With([es1 EXCEPT ![e1ri].next = e12, ![e2lo].prev = e12,
                                  ![e2ri].next = e21, ![e1lo].prev = e21,
                                  ![e12].next = e2lo, ![e12].prev = e1ri,
                                  ![e21].next = e1lo, ![e21].prev = e2ri], LAMBDA es2 :
                   LET vs1 == [vs EXCEPT ![v1].outgoing = map_insert(@, es2[e12].key, e12)]
                       vs2 == [vs1 EXCEPT ![v1].incoming = map_insert(@, es2[e21].key, e21)]
                       vs3 == [vs2 EXCEPT ![v2].outgoing = map_insert(@, es2[e21].key, e21)]
                       vs4 == [vs3 EXCEPT ![v2].incoming = map_insert(@, es2[e12].key, e12)]
                   IN  [vertices |-> vs4, edges |-> es2,
                        panic |-> IF check_cycle(es2, e12) /\ check_cycle(es2, e21)
                                  THEN "" ELSE "cycle"]))))))

\* mod.rs 99-101, None (the unwrap panics) is -1; a comparison that does not
\* return is -2
search_edge(edges_tmp, v) ==
  IF map_diverges(edges_tmp, EdgeKey(v, v)) THEN -2
  ELSE range_below_back(edges_tmp, EdgeKey(v, v))

Sweep(vs, es, edges_tmp, panic) ==
  [vertices |-> vs, edges |-> es, edges_tmp |-> edges_tmp, panic |-> panic]

SearchPanic(eleft) == IF eleft = -2 THEN "overflow" ELSE "unwrap"

\* the diagonal to the helper of edge e when that helper is a Merge vertex
diagonal_if_merge(vs, es, i, e) ==
  LET helper == es[e].helper_vertex
  IN  IF vs[helper].type_ = "Merge" THEN split_diagonal(vs, es, i, helper)
      ELSE [vertices |-> vs, edges |-> es, panic |-> ""]

\* mod.rs 160-171
sweep_start_split(s, i) ==
  LET vs == s.vertices
      es == s.edges
  IN  With(search_edge(s.edges_tmp, vs[i].cur), LAMBDA eleft :
        IF vs[i].type_ = "Split" /\ eleft < 0
        THEN Sweep(vs, es, s.edges_tmp, SearchPanic(eleft))
        ELSE With(IF vs[i].type_ = "Split"
                  THEN split_diagonal(vs, es, i, es[eleft].helper_vertex)
                  ELSE [vertices |-> vs, edges |-> es, panic |-> ""], LAMBDA d :
               LET es1 == IF vs[i].type_ = "Split"
                          THEN [d.edges EXCEPT ![eleft].helper_vertex = i]
                          ELSE d.edges
                   e   == d.vertices[i].next_edge
               IN  IF d.panic # "" THEN Sweep(d.vertices, d.edges, s.edges_tmp, d.panic)
                   ELSE With([es1 EXCEPT ![e].helper_vertex = i], LAMBDA es2 :
                          IF map_diverges(s.edges_tmp, es2[e].key)
                          THEN Sweep(d.vertices, es2, s.edges_tmp, "overflow")
                          ELSE Sweep(d.vertices, es2,
                                     map_insert(s.edges_tmp, es2[e].key, e), ""))))

\* mod.rs 172-188
sweep_end_merge(s, i) ==
  LET vs == s.vertices
      es == s.edges
      e  == vs[i].prev_edge
  IN  With(diagonal_if_merge(vs, es, i, e), LAMBDA d :
        IF d.panic # "" THEN Sweep(d.vertices, d.edges, s.edges_tmp, d.panic)
        ELSE IF map_diverges(s.edges_tmp, d.edges[e].key)
             THEN Sweep(d.vertices, d.edges, s.edges_tmp, "overflow")
        ELSE With(map_remove(s.edges_tmp, d.edges[e].key), LAMBDA tmp1 :
               IF vs[i].type_ # "Merge" THEN Sweep(d.vertices, d.edges, tmp1, "")
               ELSE With(search_edge(tmp1, vs[i].cur), LAMBDA eleft :
                      IF eleft < 0
                      THEN Sweep(d.vertices, d.edges, tmp1, SearchPanic(eleft))
                      ELSE With(diagonal_if_merge(d.vertices, d.edges, i, eleft), LAMBDA d2 :
                             IF d2.panic # ""
                             THEN Sweep(d2.vertices, d2.edges, tmp1, d2.panic)
                             ELSE Sweep(d2.vertices,
                                        [d2.edges EXCEPT ![eleft].helper_vertex = i],
                                        tmp1, "")))))

\* mod.rs 189-200
sweep_regular_left(s, i) ==
  LET vs == s.vertices
      es == s.edges
      e  == vs[i].prev_edge
  IN  With(diagonal_if_merge(vs, es, i, e), LAMBDA d :
        IF d.panic # "" THEN Sweep(d.vertices, d.edges, s.edges_tmp, d.panic)
        ELSE With(map_remove(s.edges_tmp, d.edges[e].key), LAMBDA tmp1 :
             With(d.vertices[i].next_edge, LAMBDA e2 :
             With([d.edges EXCEPT ![e2].helper_vertex = i], LAMBDA es1 :
               IF map_diverges(s.edges_tmp, d.edges[e].key)
                    \/ map_diverges(tmp1, es1[e2].key)
               THEN Sweep(d.vertices, d.edges, s.edges_tmp, "overflow")
               ELSE Sweep(d.vertices, es1, map_insert(tmp1, es1[e2].key, e2), "")))))

\* mod.rs 201-208
sweep_regular_right(s, i) ==
  LET vs == s.vertices
      es == s.edges
  IN  With(search_edge(s.edges_tmp, vs[i].cur), LAMBDA eleft :
        IF eleft < 0 THEN Sweep(vs, es, s.edges_tmp, SearchPanic(eleft))
        ELSE With(diagonal_if_merge(vs, es, i, eleft), LAMBDA d :
               IF d.panic # "" THEN Sweep(d.vertices, d.edges, s.edges_tmp, d.panic)
               ELSE Sweep(d.vertices, [d.edges EXCEPT ![eleft].helper_vertex = i],
                          s.edges_tmp, "")))

\* mod.rs 158-210
RECURSIVE sweep(_, _)
sweep(s, vinds) ==
  IF vinds = <<>> \/ s.panic # "" THEN s
  ELSE LET i == Head(vinds)
           t == s.vertices[i].type_
       IN  sweep(IF t \in {"Start", "Split"} THEN sweep_start_split(s, i)
                 ELSE IF t \in {"End", "Merge"} THEN sweep_end_merge(s, i)
                 ELSE IF t = "RegularLeft" THEN sweep_regular_left(s, i)
                 ELSE sweep_regular_right(s, i),
                 Tail(vinds))

\* mod.rs 219-231: the points along next from edge c back to e
RECURSIVE collect_cycle(_, _, _, _, _)
collect_cycle(es, e, c, seen, pts) ==
  IF c = e THEN [pts |-> pts, seen |-> seen, panic |-> ""]
  ELSE IF c \in seen THEN [pts |-> pts, seen |-> seen, panic |-> "cycle"]
  ELSE collect_cycle(es, e, es[c].next, seen \cup {c}, Append(pts, es[c].key.a))

(***************************************************************************)
(* Triangulation: triangulate_monotone and triangulate                     *)
(***************************************************************************)
Triangle_new(a, b, c) ==
  IF cross(Sub(b, a), Sub(c, a)) < 0 THEN [a |-> a, b |-> c, c |-> b]
  ELSE [a |-> a, b |-> b, c |-> c]

\* roughly_zero of a whole number
Triangle_is_degenerate(t) == cross(Sub(t.b, t.a), Sub(t.c, t.a)) = 0

\* mod.rs 237-252, with indices from 1
RECURSIVE special_point_from(_, _, _)
special_point_from(poly, bflag, i) ==
  IF i > Len(poly) THEN 1
  ELSE LET cp   == canonical(poly[i], poly[PrevIdx(Len(poly), i)])
           cn   == canonical(poly[i], poly[NextIdx(Len(poly), i)])
           cond == IF bflag THEN 1 ELSE -1
       IN  IF cp = cond /\ cn = cond THEN i
           ELSE special_point_from(poly, bflag, i + 1)

special_point(poly, bflag) == special_point_from(poly, bflag, 1)

ChainVertex(pos, type_) == [pos |-> pos, type_ |-> type_]

\* the indices lo, lo + 1, .., hi
Range(lo, hi) == IF hi < lo THEN <<>> ELSE [k \in 1 .. (hi - lo + 1) |-> lo + k - 1]

Rev(s) == [k \in 1 .. Len(s) |-> s[Len(s) + 1 - k]]

Chain(polygon, idx, type_) == [k \in 1 .. Len(idx) |-> ChainVertex(polygon[idx[k]], type_)]

\* merge.rs 18-28: the head of the first list goes first when it is less
RECURSIVE merge(_, _)
merge(s0, s1) ==
  IF s0 = <<>> THEN s1
  ELSE IF s1 = <<>> THEN s0
  ELSE IF canonical(Head(s0).pos, Head(s1).pos) < 0
       THEN <<Head(s0)>> \o merge(Tail(s0), s1)
       ELSE <<Head(s1)>> \o merge(s0, Tail(s1))

Pop(stack) == SubSeq(stack, 1, Len(stack) - 1)

Top(stack) == stack[Len(stack)]

\* mod.rs 292-296 and 329-333
RECURSIVE fan_all(_, _, _, _)
fan_all(tris, stack, p, vert) ==
  IF stack = <<>> THEN tris
  ELSE fan_all(Append(tris, Triangle_new(p, vert.pos, Top(stack).pos)),
               Pop(stack), p, Top(stack))

can_make_diagonal(o, vert, pvert) ==
  IF vert.type_ = "RegularLeft"
  THEN cross(Sub(o.pos, pvert.pos), Sub(vert.pos, pvert.pos)) >= 0
  ELSE cross(Sub(o.pos, pvert.pos), Sub(vert.pos, pvert.pos)) <= 0

\* mod.rs 308-318
RECURSIVE diagonals(_, _, _, _)
diagonals(tris, stack, pvert, vert) ==
  IF stack # <<>> /\ can_make_diagonal(Top(stack), vert, pvert)
  THEN diagonals(Append(tris, Triangle_new(pvert.pos, vert.pos, Top(stack).pos)),
                 Pop(stack), pvert, Top(stack))
  ELSE [triangles |-> tris, stack |-> Append(stack, vert)]

\* mod.rs 287-322, j from 2 (the code's 1) to the last vertex
RECURSIVE monotone_loop(_, _, _, _)
monotone_loop(tris, stack, vertices_, j) ==
  IF j > Len(vertices_) THEN [triangles |-> tris, stack |-> stack]
  ELSE LET pvert == vertices_[j]
           vert  == Top(stack)
           rest  == Pop(stack)
       IN  IF vert.type_ # "Start" /\ pvert.type_ # vert.type_
           THEN monotone_loop(fan_all(tris, rest, pvert.pos, vert),
                              <<vertices_[j - 1], pvert>>, vertices_, j + 1)
           ELSE With(diagonals(tris, rest, pvert, vert), LAMBDA d :
                  monotone_loop(d.triangles, Append(d.stack, pvert), vertices_, j + 1))

\* mod.rs 254-335: the triangles pushed, or the panic of vertices[0] at line
\* 284 when the polygon is a single point and both chains are empty
triangulate_monotone(tris, polygon) ==
  LET len == Len(polygon)
  IN  IF len = 2 THEN [triangles |-> tris, panic |-> ""]
      ELSE IF len = 3
      THEN [triangles |-> Append(tris, Triangle_new(polygon[1], polygon[2], polygon[3])),
            panic |-> ""]
      ELSE With(special_point(polygon, TRUE), LAMBDA begin :
           With(special_point(polygon, FALSE), LAMBDA end :
             LET left  == IF begin < end THEN Range(begin + 1, end - 1)
                          ELSE Range(begin + 1, len) \o Range(1, end - 1)
                 right == IF begin < end THEN Range(end + 1, len) \o Range(1, begin - 1)
                          ELSE Range(end + 1, begin - 1)
             IN  With(Rev(merge(Rev(Chain(polygon, left, "RegularLeft")),
                                Chain(polygon, right, "RegularRight"))), LAMBDA vertices_ :
                   IF vertices_ = <<>> THEN [triangles |-> tris, panic |-> "index"]
                   ELSE With(monotone_loop(tris,
                                           <<ChainVertex(polygon[begin], "Start"),
                                             vertices_[1]>>,
                                           vertices_, 2), LAMBDA r :
                          [triangles |-> fan_all(r.triangles, Pop(r.stack),
                                                 polygon[end], Top(r.stack)),
                           panic |-> ""]))))

\* mod.rs 213-233 with the loop of mod.rs 40-42: the polygons come out one by
\* one and each is triangulated before the next is collected
RECURSIVE monotone_polygons(_, _, _, _, _)
monotone_polygons(vs, es, i, seen, tris) ==
  IF i >= VecLen(vs) THEN [triangles |-> tris, panic |-> ""]
  ELSE LET e == vs[i].next_edge
       IN  IF e \in seen THEN monotone_polygons(vs, es, i + 1, seen, tris)
           ELSE With(collect_cycle(es, e, es[e].next, seen \cup {e}, <<es[e].key.a>>),
                     LAMBDA c :
                  IF c.panic # "" THEN [triangles |-> tris, panic |-> c.panic]
                  ELSE With(triangulate_monotone(tris, c.pts), LAMBDA t :
                         IF t.panic # "" THEN t
                         ELSE monotone_polygons(vs, es, i + 1, c.seen, t.triangles)))

\* mod.rs 105-211
partition_to_monotone(contours) ==
  With(partition_add_polygons(<<>>, <<>>, contours), LAMBDA b :
    sweep(Sweep(b.vertices, b.edges, <<>>, ""),
          sorted_down(b.vertices, DOMAIN b.vertices)))

\* mod.rs 34-47: the triangles, or the panic that ends the call
triangulate(contours) ==
  LET cs == [k \in 1 .. Len(contours) |-> simplify_polygon(contours[k])]
  IN  With(partition_to_monotone(cs), LAMBDA s :
        IF s.panic # "" THEN [triangles |-> <<>>, panic |-> s.panic]
        ELSE With(monotone_polygons(s.vertices, s.edges, 0, {}, <<>>), LAMBDA r :
               IF r.panic # "" THEN [triangles |-> <<>>, panic |-> r.panic]
               ELSE [triangles |-> SelectSeq(r.triangles,
                                             LAMBDA t : ~Triangle_is_degenerate(t)),
                     panic |-> ""]))

(***************************************************************************)
(* split_comps and CompiledDrawing::from_face on closed paths of lines and *)
(* quadratic curves                                                        *)
(***************************************************************************)
\* the lines that join the points of a closed subpath, the closing line too
LinesOf(sub) == [i \in 1 .. Len(sub) |-> Line(sub[i], sub[NextIdx(Len(sub), i)])]

\* M 0,0 L 4,0 L 4,4 L 0,4 Z and M 1,1 L 1,3 L 3,3 L 3,1 Z, as the points
\* of their subpaths
OuterSquare == << <<0, 0>>, <<4, 0>>, <<4, 4>>, <<0, 4>> >>

InnerSquare == << <<1, 1>>, <<1, 3>>, <<3, 3>>, <<3, 1>> >>

SquareWithHole == <<LinesOf(OuterSquare), LinesOf(InnerSquare)>>

\* the subpath that starts r corners later, backwards when back is TRUE
Turned(sub, r, back) ==
  LET n == Len(sub)
      s == IF back THEN Rev(sub) ELSE sub
  IN  [k \in 1 .. n |-> s[((k - 1 + r) % n) + 1]]

\* the square alone and the square with the hole, each subpath from any of
\* its corners and in either direction
LinePaths ==
  { <<LinesOf(Turned(OuterSquare, r, b))>> : r \in 0 .. 3, b \in BOOLEAN }
    \cup { <<LinesOf(Turned(OuterSquare, r1, b1)), LinesOf(Turned(InnerSquare, r2, b2))>> :
             r1 \in 0 .. 3, b1 \in BOOLEAN, r2 \in 0 .. 3, b2 \in BOOLEAN }

\* M 0,0 Q 1,2 2,0 Z: the curve and the line that closes the subpath
ArchPath == << <<QuadraticBezier(<<0, 0>>, <<1, 2>>, <<2, 0>>), Line(<<2, 0>>, <<0, 0>>)>> >>

\* a quadratic curve over the chord (0,0)-(2,0), in either direction, with
\* its control point off the chord's line, closed by a line that comes after
\* the curve or before it
QuadPaths ==
  LET ctl == { <<x, y>> : x \in -1 .. 3, y \in {-2, -1, 1, 2} }
      ends == { << <<0, 0>>, <<2, 0>> >>, << <<2, 0>>, <<0, 0>> >> }
  IN  { << <<QuadraticBezier(e[1], b, e[2]), Line(e[2], e[1])>> >> : b \in ctl, e \in ends }
        \cup { << <<Line(e[2], e[1]), QuadraticBezier(e[1], b, e[2])>> >> : b \in ctl, e \in ends }

\* the number of curves, and so of points, of the subpaths before subpath k
RECURSIVE PointsBefore(_, _)
PointsBefore(paths, k) ==
  IF k <= 1 THEN 0 ELSE Len(paths[k - 1]) + PointsBefore(paths, k - 1)

\* splitting.rs 60-76 for the curves of subpath k: the curves meet in their
\* end points only, which derive_clusters numbers in the order they come in
RECURSIVE add_subpath(_, _, _, _)
add_subpath(d, paths, k, i) ==
  LET sub  == paths[k]
      n    == Len(sub)
      base == PointsBefore(paths, k)
  IN  IF i > n \/ d.panic # "" THEN d
      ELSE add_subpath(add_curve(d.vertices, d.edges, d.faces,
                                 base + i - 1, base + NextIdx(n, i) - 1, sub[i]),
                       paths, k, i + 1)

RECURSIVE add_subpaths(_, _, _)
add_subpaths(d, paths, k) ==
  IF k > Len(paths) THEN d
  ELSE add_subpaths(add_subpath(d, paths, k, 1), paths, k + 1)

\* splitting.rs 57-85
split_comps(paths, fill_rule) ==
  LET num_pts == PointsBefore(paths, Len(paths) + 1)
  IN  With(add_subpaths(Dcel([v \in 0 .. (num_pts - 1) |-> {}], <<>>,
                             [i \in {0} |-> Face_outer], ""),
                        paths, 1), LAMBDA d :
        IF d.panic # "" THEN [faces |-> <<>>, panic |-> d.panic]
        ELSE With(remove_wedges(d.vertices, d.edges, d.faces), LAMBDA w :
               IF w.panic # "" THEN [faces |-> <<>>, panic |-> w.panic]
               ELSE With(simplify_faces(w.edges,
                                        assign_face_fill_numbers(w.edges, w.faces),
                                        fill_rule), LAMBDA s :
                      [faces |-> get_face_contours(s.edges, s.faces, fill_rule),
                       panic |-> ""])))

(***************************************************************************)
(* subdivide_overlapping: whether a pair of curves is subdivided           *)
(***************************************************************************)
Add(a, b) == <<a[1] + b[1], a[2] + b[2]>>

inside_segment_collinear(x0, x1, y, strict) ==
  LET d == dot(Sub(x1, x0), Sub(y, x0))
      l == dot(Sub(x1, x0), Sub(x1, x0))
  IN  IF strict THEN d > 0 /\ d < l ELSE d >= 0 /\ d <= l

\* polygon.rs 15-52
segments_intersect(p0, p1, q0, q1, strict) ==
  LET crossq0 == cross(Sub(p1, p0), Sub(q0, p0))
      crossq1 == cross(Sub(p1, p0), Sub(q1, p0))
      crossp0 == cross(Sub(q1, q0), Sub(p0, q0))
      crossp1 == cross(Sub(q1, q0), Sub(p1, q0))
  IN  IF p0 = p1
      THEN ~strict /\ crossp0 = 0 /\ inside_segment_collinear(q0, q1, p0, strict)
      ELSE IF q0 = q1
      THEN ~strict /\ crossq0 = 0 /\ inside_segment_collinear(p0, p1, q0, strict)
      ELSE IF strict /\ (p0 = q0 \/ p0 = q1 \/ p1 = q0 \/ p1 = q1) THEN FALSE
      ELSE IF crossq0 = 0 THEN ~strict /\ inside_segment_collinear(p0, p1, q0, strict)
      ELSE IF crossq1 = 0 THEN ~strict /\ inside_segment_collinear(p0, p1, q1, strict)
      ELSE IF crossp0 = 0 THEN ~strict /\ inside_segment_collinear(q0, q1, p0, strict)
      ELSE IF crossp1 = 0 THEN ~strict /\ inside_segment_collinear(q0, q1, p1, strict)
      ELSE IF crossq0 < 0 /\ crossq1 < 0 THEN FALSE
      ELSE IF crossq0 > 0 /\ crossq1 > 0 THEN FALSE
      ELSE IF crossp0 < 0 /\ crossp1 < 0 THEN FALSE
      ELSE IF crossp0 > 0 /\ crossp1 > 0 THEN FALSE
      ELSE TRUE

\* polygon.rs 98-100: whether the point of the segment from `low` (left of
\* p) to `high` (not left of p) that has p's abscissa lies at p's height or
\* above it
clipped_not_below(low, high, p) ==
  LET den == low[1] - high[1]
  IN  high[2] * den + (p[1] - high[1]) * (low[2] - high[2]) <= p[2] * den

\* polygon.rs 83-104; contains |-> "false" is the early return of line 95
RECURSIVE polygon_contains_point_from(_, _, _, _, _)
polygon_contains_point_from(poly, p, strict, i, contains) ==
  LET p0 == poly[i]
      p1 == poly[PrevIdx(Len(poly), i)]
      y0 == IF p0[1] < p[1] THEN clipped_not_below(p0, p1, p) ELSE p0[2] >= p[2]
      y1 == IF p0[1] >= p[1] /\ p1[1] < p[1] THEN clipped_not_below(p1, p0, p)
            ELSE p1[2] >= p[2]
  IN  IF i > Len(poly) THEN contains
      ELSE IF p0 = p1 THEN polygon_contains_point_from(poly, p, strict, i + 1, contains)
      ELSE IF /\ strict
              /\ cross(Sub(p1, p0), Sub(p, p0)) = 0
              /\ inside_segment_collinear(p0, p1, p, FALSE)
      THEN FALSE
      ELSE IF p0[1] < p[1] /\ p1[1] < p[1]
      THEN polygon_contains_point_from(poly, p, strict, i + 1, contains)
      ELSE polygon_contains_point_from(poly, p, strict, i + 1,
                                       IF y0 # y1 THEN ~contains ELSE contains)

polygon_contains_point(poly, p, strict) ==
  polygon_contains_point_from(poly, p, strict, 1, FALSE)

\* polygon.rs 106-121
polygon_segment_intersect(poly, a, b, strict) ==
  \/ \E i \in 1 .. Len(poly) :
       segments_intersect(poly[i], poly[PrevIdx(Len(poly), i)], a, b, strict)
  \/ polygon_contains_point(poly, a, strict)
  \/ polygon_contains_point(poly, b, strict)

\* polygon.rs 65-81: <<>> is None
segment_equivalent(poly) ==
  IF Len(poly) = 2 THEN poly
  ELSE IF polygon_winding(poly) # 0 THEN <<>>
  ELSE <<poly[extreme_x(poly, 2, 1, TRUE)], poly[extreme_x(poly, 2, 1, FALSE)]>>

\* polygon.rs 123-155
polygons_overlap(poly0, poly1, strict) ==
  LET s0 == segment_equivalent(poly0)
      s1 == segment_equivalent(poly1)
  IN  IF s0 # <<>> /\ s1 # <<>> THEN segments_intersect(s0[1], s0[2], s1[1], s1[2], strict)
      ELSE IF s0 # <<>> THEN polygon_segment_intersect(poly1, s0[1], s0[2], strict)
      ELSE IF s1 # <<>> THEN polygon_segment_intersect(poly0, s1[1], s1[2], strict)
      ELSE \/ \E j \in 1 .. Len(poly0), i \in 1 .. Len(poly1) :
                segments_intersect(poly0[j], poly0[PrevIdx(Len(poly0), j)],
                                   poly1[i], poly1[PrevIdx(Len(poly1), i)], strict)
           \/ \E j \in 1 .. Len(poly0) : polygon_contains_point(poly1, poly0[j], strict)
           \/ \E i \in 1 .. Len(poly1) : polygon_contains_point(poly0, poly1[i], strict)

enclosing_polygon(curve) ==
  IF IsQuad(curve) THEN <<curve.a, curve.b, curve.c>> ELSE <<curve.a, curve.b>>

\* subdivision.rs 204-221: whether the result is Some(..)
get_intersection_info_is_some(c1, c2) ==
  LET e1 == enclosing_polygon(c1)
      e2 == enclosing_polygon(c2)
      p1 == IF polygon_winding(e1) < 0 THEN Rev(e1) ELSE e1
      p2 == IF polygon_winding(e2) < 0 THEN Rev(e2) ELSE e2
  IN  polygons_overlap(p1, p2, TRUE)

\* the curves of all the contours of a face, in their order
RECURSIVE Flatten(_)
Flatten(contours) ==
  IF contours = <<>> THEN <<>> ELSE Head(contours) \o Flatten(Tail(contours))

\* subdivision.rs 58-87: a pair of the face's curves gives an intersection
\* info, and so one of them at least is cut in two
Subdivides(face) ==
  LET cs == Flatten(face.contours)
  IN  \E n1 \in 1 .. Len(cs), n2 \in 1 .. Len(cs) :
        n1 < n2 /\ get_intersection_info_is_some(cs[n1], cs[n2])

\* 6 * Curve::winding_at_midpoint(), mod.rs 126-132
winding_at_midpoint(curve) ==
  2 * winding(curve)
    - 3 * cross(Add(at_start(curve), at_end(curve)), Sub(at_end(curve), at_start(curve)))

\* a slip in is_convex: the sign of the winding is read the other way round
is_convex_negative(curve) == winding_at_midpoint(curve) < 0

is_convex(curve) == winding_at_midpoint(curve) > 0

\* the directions of Curve::entry_tangent() and Curve::exit_tangent()
entry_tangent(curve) == Sub(curve.b, curve.a)

exit_tangent(curve) == IF IsQuad(curve) THEN Sub(curve.c, curve.b) ELSE Sub(curve.b, curve.a)

\* subdivision.rs 17-25; the dot product of the unit tangents is at least
\* -0.99 when it is not negative or its square is at most 0.9801
eligible(c1, c2) ==
  LET u == exit_tangent(c1)
      w == entry_tangent(c2)
      d == dot(u, w)
  IN  /\ at_end(c1) = at_start(c2)
      /\ ~(d >= 0 \/ 10000 * d * d <= 9801 * dot(u, u) * dot(w, w))
      /\ is_convex(c1) # is_convex(c2)

\* subdivision.rs 13-29
are_curves_fusable(c1, c2) ==
  IF is_line(c1) \/ is_line(c2) THEN FALSE
  ELSE eligible(c1, c2) \/ eligible(c2, c1)

\* a contour none of whose curves is fused with the next one
Unfused(contour) ==
  \A i \in 1 .. Len(contour) :
    ~are_curves_fusable(contour[i], contour[NextIdx(Len(contour), i)])

(***************************************************************************)
(* CompiledDrawing::from_face                                              *)
(***************************************************************************)
\* texture coordinates are kept doubled
CurveVertex(pos, tex) == [pos |-> pos, tex |-> tex]

\* curve_vertices.rs 14-25, for a quadratic curve
curve_vertices(curve) ==
  LET sign == IF is_convex(curve) THEN 1 ELSE -1
  IN  << CurveVertex(curve.a, <<0, 0, 2, 2 * sign>>),
         CurveVertex(curve.b, <<0, 1, 2, 2 * sign>>),
         CurveVertex(curve.c, <<2, 2, 2, 2 * sign>>) >>

CurveTriangle_new(a, b, c) ==
  IF cross(Sub(b.pos, a.pos), Sub(c.pos, a.pos)) < 0 THEN [a |-> a, b |-> c, c |-> b]
  ELSE [a |-> a, b |-> b, c |-> c]

\* subdivision_structs.rs 33-36
make_triangle_fan(vs) ==
  [i \in 1 .. (Len(vs) - 2) |-> CurveTriangle_new(vs[1], vs[i + 1], vs[i + 2])]

\* compiled_drawing.rs 85-123 from the curve with index i (from 1) on, for a
\* contour without fused curves
RECURSIVE build_from(_, _, _, _)
build_from(contour, i, list, curve_triangles) ==
  LET c  == contour[i]
      ct == IF is_line(c) THEN curve_triangles
            ELSE curve_triangles \o make_triangle_fan(curve_vertices(c))
      l  == IF is_line(c) \/ is_convex(c) THEN Append(list, at_end(c))
            ELSE list \o Tail(enclosing_polygon(c))
  IN  IF i > Len(contour) THEN [list |-> list, curve_triangles |-> curve_triangles]
      ELSE build_from(contour, i + 1, l, ct)

\* compiled_drawing.rs 68-126, for a contour without fused curves: the
\* polygon, and curve_triangles with the contour's curve triangles added
build_polygon_and_curves(contour, curve_triangles) ==
  IF contour = <<>> THEN [list |-> <<>>, curve_triangles |-> curve_triangles]
  ELSE build_from(contour, 1, <<>>,
                  IF is_line(contour[1]) THEN curve_triangles
                  ELSE curve_triangles \o make_triangle_fan(curve_vertices(contour[1])))

\* compiled_drawing.rs 55-57: the polygons of the contours from k on
RECURSIVE build_polygons(_, _, _, _)
build_polygons(contours, k, polygons, curve_triangles) ==
  IF k > Len(contours) THEN [polygons |-> polygons, curve_triangles |-> curve_triangles]
  ELSE LET b == build_polygon_and_curves(contours[k], curve_triangles)
       IN  build_polygons(contours, k + 1, Append(polygons, b.list), b.curve_triangles)

\* compiled_drawing.rs 44-65, for a face that subdivide_overlapping leaves
\* as it is and whose contours have no fused curves
from_face(face) ==
  With(build_polygons(face.contours, 1, <<>>, <<>>), LAMBDA b :
  With(triangulate(b.polygons), LAMBDA t :
    [triangles |-> t.triangles, curve_triangles |-> b.curve_triangles,
     double_curve_triangles |-> <<>>, panic |-> t.panic]))

\* CompiledDrawing::concat_many over the faces, up to the first panic
RECURSIVE from_faces(_, _, _)
from_faces(fs, k, acc) ==
  IF k > Len(fs) THEN acc
  ELSE With(from_face(fs[k]), LAMBDA c :
         IF c.panic # "" THEN c
         ELSE from_faces(fs, k + 1,
                         [acc EXCEPT !.triangles = @ \o c.triangles,
                                     !.curve_triangles = @ \o c.curve_triangles]))

\* len - 1 of a usize, the upper end of the loops of splitting.rs 21 and 95:
\* for len = 0 a build with overflow checks panics and a build without them
\* wraps to 2^64 - 1
usize_len_minus_one(len, overflow_checks) ==
  IF len > 0 THEN "ok" ELSE IF overflow_checks THEN "panic" ELSE "wrapped"

\* split_comps on the curves of the subpaths: for_all_intersections and
\* derive_clusters both begin with len - 1; with the wrapped bound their
\* loops count through 2^64 rounds without a pair to visit, every later loop
\* is empty, and no face is returned
split_comps_total(paths, fill_rule, overflow_checks) ==
  LET len == Len(Flatten(paths))
      sub == usize_len_minus_one(len, overflow_checks)
  IN  IF sub = "panic"
        THEN [faces |-> <<>>, panic |-> "attempt to subtract with overflow", wrapped |-> FALSE]
      ELSE IF sub = "wrapped"
        THEN [faces |-> <<>>, panic |-> "", wrapped |-> TRUE]
      ELSE With(split_comps(paths, fill_rule), LAMBDA r :
             [faces |-> r.faces, panic |-> r.panic, wrapped |-> FALSE])

\* the path without a curve: what simplify_curves leaves of a path whose
\* curves are all degenerate
NoCurves == <<>>

InitPaths ==
  /\ vertices = [v \in VertexIds |-> {}]
  /\ edges = <<>>
  /\ faces = [i \in {0} |-> Face_outer]
  /\ calls = 0
  /\ last = [op |-> "new", v1 |-> 0, v2 |-> 0, branch |-> "", panic |-> ""]
  /\ pc = "path"
  /\ arg \in LinePaths \cup QuadPaths \cup {NoCurves}
  /\ ret = <<>>

SplitComps ==
  /\ pc = "path"
  /\ \E overflow_checks \in BOOLEAN : ret' = split_comps_total(arg, "EvenOdd", overflow_checks)
  /\ pc' = IF ret'.panic = "" THEN "faces" ELSE "panic"
  /\ last' = [last EXCEPT !.op = "split_comps"]
  /\ UNCHANGED <<vertices, edges, faces, calls, arg>>

\* from_face on every face, for faces that are not subdivided and have no
\* fused curves
FromFace ==
  /\ pc = "faces"
  /\ \A k \in 1 .. Len(ret.faces) :
       /\ ~Subdivides(ret.faces[k])
       /\ \A j \in 1 .. Len(ret.faces[k].contours) : Unfused(ret.faces[k].contours[j])
  /\ ret' = from_faces(ret.faces, 1,
                       [triangles |-> <<>>, curve_triangles |-> <<>>,
                        double_curve_triangles |-> <<>>, panic |-> ""])
  /\ pc' = IF ret'.panic = "" THEN "compiled" ELSE "panic"
  /\ last' = [last EXCEPT !.op = "from_face"]
  /\ UNCHANGED <<vertices, edges, faces, calls, arg>>

NextPaths == SplitComps \/ FromFace

SpecPaths == InitPaths /\ [][NextPaths]_vars

\* C17 (as stated): split_comps returns its faces for every curve list, the
\* empty one included, without a panic and without an arithmetic underflow
C17_AsStated ==
  last.op = "split_comps" => (pc = "faces" /\ ret.panic = "" /\ ~ret.wrapped)

\* C13: for M 0,0 L 4,0 L 4,4 L 0,4 Z M 1,1 L 1,3 L 3,3 L 3,1 Z under
\* even-odd, split_comps gives a visible face of two contours and from_face
\* completes on it with 8 filled triangles and no curve triangles
C13_AnnulusTriangles ==
  (arg = SquareWithHole /\ last.op = "from_face") =>
    /\ pc = "compiled"
    /\ Len(ret.triangles) = 8
    /\ ret.curve_triangles = <<>>
    /\ ret.double_curve_triangles = <<>>

\* the corners of a triangle
Corners(t) == {t.a, t.b, t.c}

\* C14 as stated: for M 0,0 Q 1,2 2,0 Z under even-odd the compiled drawing
\* has exactly one filled triangle, (0,0)(2,0)(1,2), exactly one curve
\* triangle, with the texture coordinates (0,0,1,s), (0,0.5,1,s), (1,1,1,s),
\* and no double-curve triangle
C14_AsStated ==
  (arg = ArchPath /\ last.op = "from_face") =>
    /\ pc = "compiled"
    /\ Len(ret.triangles) = 1
    /\ Corners(ret.triangles[1]) = {<<0, 0>>, <<2, 0>>, <<1, 2>>}
    /\ Len(ret.curve_triangles) = 1
    /\ \E s \in {1, -1} :
         {v.tex : v \in Corners(ret.curve_triangles[1])}
           = {<<0, 0, 2, 2 * s>>, <<0, 1, 2, 2 * s>>, <<2, 2, 2, 2 * s>>}
    /\ ret.double_curve_triangles = <<>>

\* C14: for M 0,0 Q 1,2 2,0 Z under even-odd the compiled drawing has no
\* filled triangle, exactly one curve triangle, on (2,0), (1,2), (0,0) with
\* the texture coordinates (0,0,1,1), (0,0.5,1,1), (1,1,1,1) in this order
\* (the curve is convex for its face, so its polygon is the chord alone),
\* and no double-curve triangle
C14_QuadCompiled ==
  (arg = ArchPath /\ last.op = "from_face") =>
    /\ pc = "compiled"
    /\ ret.triangles = <<>>
    /\ ret.curve_triangles =
         << [a |-> CurveVertex(<<2, 0>>, <<0, 0, 2, 2>>),
             b |-> CurveVertex(<<1, 2>>, <<0, 1, 2, 2>>),
             c |-> CurveVertex(<<0, 0>>, <<2, 2, 2, 2>>)] >>
    /\ ret.double_curve_triangles = <<>>

\* from_face has compiled the face of M 0,0 Q 1,2 2,0 Z
C14_Witness ==
  /\ arg = ArchPath
  /\ last.op = "from_face"
  /\ pc = "compiled"
  /\ Len(ret.curve_triangles) = 1

(***************************************************************************)
(* derive_clusters and UnionFind                                           *)
(***************************************************************************)
\* union_find.rs 14-18
UnionFind_new(cnt) ==
  [parents |-> [i \in 0 .. (cnt - 1) |-> i], sizes |-> [i \in 0 .. (cnt - 1) |-> 1]]

\* union_find.rs 20-26: the root of i, and the structure with the parents
\* on the way to the root set to it
RECURSIVE UnionFind_find(_, _)
UnionFind_find(uf, i) ==
  IF uf.parents[i] = i THEN [uf |-> uf, root |-> i]
  ELSE LET r == UnionFind_find(uf, uf.parents[i])
       IN  [uf |-> [r.uf EXCEPT !.parents[i] = r.root], root |-> r.root]

\* a slip in union: the parent of j is set to i without looking for roots
UnionFind_union_no_find(uf, i, j) == [uf EXCEPT !.parents[j] = i]

\* union_find.rs 28-37
UnionFind_union(uf, i, j) ==
  LET fi == UnionFind_find(uf, i)
      fj == UnionFind_find(fi.uf, j)
      u  == fj.uf
      swap == u.sizes[fi.root] < u.sizes[fj.root]
      big   == IF swap THEN fj.root ELSE fi.root
      small == IF swap THEN fi.root ELSE fj.root
  IN  IF fi.root = fj.root THEN u
      ELSE [u EXCEPT !.parents[small] = big, !.sizes[big] = @ + u.sizes[small]]

\* Vec2::roughly_equals, the squared distance below EPSILON * EPSILON, for
\* points whose coordinates are whole numbers of 0.75 * EPSILON
roughly_equals(p, q) == 9 * dot(Sub(p, q), Sub(p, q)) < 16

\* splitting.rs 95-101, from the pair (i, j) on; all_points is indexed from 1
RECURSIVE reunite(_, _, _, _)
reunite(uf, all_points, i, j) ==
  LET n == Len(all_points)
  IN  IF i >= n - 1 THEN uf
      ELSE IF j >= n THEN reunite(uf, all_points, i + 1, i + 2)
      ELSE reunite(IF roughly_equals(all_points[i + 1], all_points[j + 1])
                   THEN UnionFind_union(uf, i, j) ELSE uf,
                   all_points, i, j + 1)

\* splitting.rs 104-111: flat maps the roots met so far to their numbers
RECURSIVE flatten_parents(_, _, _, _, _)
flatten_parents(uf, n, i, flat, max) ==
  LET f == UnionFind_find(uf, i)
  IN  IF i >= n THEN [uf |-> uf, flat |-> flat, max |-> max]
      ELSE IF f.root \in DOMAIN flat THEN flatten_parents(f.uf, n, i + 1, flat, max)
      ELSE flatten_parents(f.uf, n, i + 1, (f.root :> max) @@ flat, max + 1)

\* splitting.rs 117-122 for the entries of one map, k the entries before it
attribute(uf, flat, map, k) ==
  [e \in 1 .. Len(map) |-> flat[UnionFind_find(uf, k + e - 1).root]]

\* the number of entries of the maps before map i
RECURSIVE EntriesBefore(_, _)
EntriesBefore(intersections, i) ==
  IF i <= 1 THEN 0
  ELSE Len(intersections[i - 1]) + EntriesBefore(intersections, i - 1)

\* splitting.rs 88-125.  A map of intersections is the sequence of its
\* points in the order of their parameters, a map of clusters the sequence
\* of the vertex numbers in the same order.  Without any point,
\* all_points.len() - 1 goes below zero: a panic, or a loop of 2^64 rounds
\* in a build without overflow checks
derive_clusters(intersections) ==
  LET all_points == Flatten(intersections)
      n   == Len(all_points)
      uf  == reunite(UnionFind_new(n), all_points, 0, 1)
      fl  == flatten_parents(uf, n, 0, <<>>, 0)
  IN  IF n = 0 THEN [clusters |-> <<>>, num_pts |-> 0, panic |-> "underflow"]
      ELSE [clusters |-> [i \in 1 .. Len(intersections) |->
                            attribute(fl.uf, fl.flat, intersections[i],
                                      EntriesBefore(intersections, i))],
            num_pts |-> fl.max, panic |-> ""]

\* points of curves, some of them roughly equal: (0,0) and (1,0), (1,0) and
\* (1,1), but not (0,0) and (1,1); (3,1) is far from all of them
ClusterPoints == { <<0, 0>>, <<1, 0>>, <<1, 1>>, <<3, 1>> }

\* points gathered in a call of derive_clusters
MaxAllPoints == 5

\* the maps cut out of the points pts, a new map starting at every index of
\* cuts
RECURSIVE CutMaps(_, _, _)
CutMaps(pts, cuts, from) ==
  LET later == {c \in cuts : c > from}
      to    == IF later = {} THEN Len(pts) + 1 ELSE CHOOSE c \in later : \A d \in later : c <= d
  IN  IF from > Len(pts) THEN <<>>
      ELSE <<SubSeq(pts, from, to - 1)>> \o CutMaps(pts, cuts, to)

\* the maps split_comps hands over: one map for every curve, with the points
\* of t = 0 and t = 1 at least
InitClusters ==
  /\ vertices = [v \in VertexIds |-> {}]
  /\ edges = <<>>
  /\ faces = [i \in {0} |-> Face_outer]
  /\ calls = 0
  /\ last = [op |-> "new", v1 |-> 0, v2 |-> 0, branch |-> "", panic |-> ""]
  /\ pc = "intersections"
  /\ \E len \in 2 .. MaxAllPoints :
       \E pts \in [1 .. len -> ClusterPoints], cuts \in SUBSET (3 .. (len - 1)) :
         /\ \A m \in 1 .. Len(CutMaps(pts, cuts, 1)) : Len(CutMaps(pts, cuts, 1)[m]) >= 2
         /\ arg = CutMaps(pts, cuts, 1)
  /\ ret = <<>>

DeriveClusters ==
  /\ pc = "intersections"
  /\ ret' = derive_clusters(arg)
  /\ pc' = IF ret'.panic = "" THEN "clustered" ELSE "panic"
  /\ last' = [last EXCEPT !.op = "derive_clusters"]
  /\ UNCHANGED <<vertices, edges, faces, calls, arg>>

NextClusters == DeriveClusters

SpecClusters == InitClusters /\ [][NextClusters]_vars

\* the entries (map, place) of the maps
EntriesOf(maps) == UNION { { <<i, e>> : e \in 1 .. Len(maps[i]) } : i \in 1 .. Len(maps) }

\* the entries a chain of roughly equal points leads to from the entries of S
RECURSIVE ChainFrom(_, _)
ChainFrom(maps, S) ==
  LET more == { x \in EntriesOf(maps) :
                  \E s \in S : roughly_equals(maps[x[1]][x[2]], maps[s[1]][s[2]]) }
  IN  IF more \subseteq S THEN S ELSE ChainFrom(maps, S \cup more)

\* C15: derive_clusters gives every gathered entry a vertex number, the
\* numbers used are exactly 0 .. num_pts - 1, and two entries have the same
\* number exactly when a chain of roughly equal points links them
C15_DenseClusterIds ==
  last.op = "derive_clusters" =>
    /\ pc = "clustered"
    /\ Len(ret.clusters) = Len(arg)
    /\ \A i \in 1 .. Len(arg) : Len(ret.clusters[i]) = Len(arg[i])
    /\ { ret.clusters[x[1]][x[2]] : x \in EntriesOf(arg) } = 0 .. (ret.num_pts - 1)
    /\ \A x, y \in EntriesOf(arg) :
         (ret.clusters[x[1]][x[2]] = ret.clusters[y[1]][y[2]]) <=> (y \in ChainFrom(arg, {x}))

\* two entries of different curves share a number though their points are
\* not roughly equal themselves, and another number is in use as well
C15_Witness ==
  /\ last.op = "derive_clusters"
  /\ pc = "clustered"
  /\ ret.num_pts >= 2
  /\ \E x, y \in EntriesOf(arg) :
       /\ x[1] # y[1]
       /\ ret.clusters[x[1]][x[2]] = ret.clusters[y[1]][y[2]]
       /\ ~roughly_equals(arg[x[1]][x[2]], arg[y[1]][y[2]])

\* ---------------------------------------------------------------------------
\* at and subcurve of the four curve variants (curve/line.rs,
\* quadratic_bezier.rs, cubic_bezier.rs, elliptic_arc.rs).  The parameters
\* and the coordinates of the Bezier variants are quotients of integers,
\* kept as <<numerator, denominator>> in lowest terms, so every formula below
\* is exact.  The angles of an arc are whole numbers of eighths of a turn.
\* ---------------------------------------------------------------------------

\* a point whose coordinates are NaN: no number is kept for it
NaNPoint == <<>>

RECURSIVE Gcd(_, _)
Gcd(m, n) == IF n = 0 THEN m ELSE Gcd(n, m % n)

AbsVal(x) == IF x < 0 THEN -x ELSE x

\* the quotient n / d in lowest terms, d # 0
Q(n, d) ==
  With(Gcd(AbsVal(n), AbsVal(d)), LAMBDA g :
    IF d < 0 THEN <<(-n) \div g, (-d) \div g>> ELSE <<n \div g, d \div g>>)

QAdd(x, y) == Q(x[1] * y[2] + y[1] * x[2], x[2] * y[2])

QSub(x, y) == Q(x[1] * y[2] - y[1] * x[2], x[2] * y[2])

QMul(x, y) == Q(x[1] * y[1], x[2] * y[2])

QLeq(x, y) == x[1] * y[2] <= y[1] * x[2]

QOne == <<1, 1>>

QInt(n) == <<n, 1>>

\* Vec2 of quotients: the sum, the difference and Coord * Vec2
VAdd(u, w) == <<QAdd(u[1], w[1]), QAdd(u[2], w[2])>>

VSub(u, w) == <<QSub(u[1], w[1]), QSub(u[2], w[2])>>

VMul(k, u) == <<QMul(k, u[1]), QMul(k, u[2])>>

QPoint(p) == <<QInt(p[1]), QInt(p[2])>>

\* line.rs 19: (1.0-t) * a + t * b
Line_at(l, t) == VAdd(VMul(QSub(QOne, t), l.a), VMul(t, l.b))

\* line.rs 23-25
Line_subcurve(ln, l, r) == [kind |-> "Line", a |-> Line_at(ln, l), b |-> Line_at(ln, r)]

\* quadratic_bezier.rs 22-25
QuadraticBezier_at(q, t) ==
  With(QSub(QOne, t), LAMBDA ct :
    VAdd(VAdd(VMul(QMul(ct, ct), q.a), VMul(QMul(QMul(QInt(2), ct), t), q.b)),
         VMul(QMul(t, t), q.c)))

\* quadratic_bezier.rs 29-40
QuadraticBezier_subcurve(q, l, r) ==
  With(QSub(QOne, l), LAMBDA cl :
  With(QSub(QOne, r), LAMBDA cr :
    [kind |-> "QuadraticBezier",
     a |-> QuadraticBezier_at(q, l),
     b |-> VAdd(VAdd(VMul(QMul(cl, cr), q.a),
                     VMul(QAdd(QMul(l, cr), QMul(r, cl)), q.b)),
                VMul(QMul(l, r), q.c)),
     c |-> QuadraticBezier_at(q, r)]))

\* cubic_bezier.rs 23-27
CubicBezier_at(c, t) ==
  With(QSub(QOne, t), LAMBDA ct :
    VAdd(VAdd(VMul(QMul(QMul(ct, ct), ct), c.a),
              VMul(QMul(QMul(QMul(QInt(3), ct), ct), t), c.b)),
         VAdd(VMul(QMul(QMul(QMul(QInt(3), ct), t), t), c.c),
              VMul(QMul(QMul(t, t), t), c.d))))

\* cubic_bezier.rs 29-34: the derivative, a quadratic curve
CubicBezier_derivative(c) ==
  [kind |-> "QuadraticBezier",
   a |-> VMul(QInt(3), VSub(c.b, c.a)),
   b |-> VMul(QInt(3), VSub(c.c, c.b)),
   c |-> VMul(QInt(3), VSub(c.d, c.c))]

\* cubic_bezier.rs 36-50
CubicBezier_subcurve(c, l, r) ==
  With(CubicBezier_at(c, l), LAMBDA a :
  With(CubicBezier_at(c, r), LAMBDA d :
  With(CubicBezier_derivative(c), LAMBDA dd :
    [kind |-> "CubicBezier",
     a |-> a,
     b |-> VAdd(VMul(Q(1, 3), VMul(QSub(r, l), QuadraticBezier_at(dd, l))), a),
     c |-> VSub(d, VMul(Q(1, 3), VMul(QSub(r, l), QuadraticBezier_at(dd, r)))),
     d |-> d])))

\* a number p + q * sqrt(2)/2 with whole p and q, kept as <<p, q>>: the cosine
\* and the sine of k eighths of a turn (8 to the turn) are such numbers
Cos8(k) ==
  CASE k % 8 = 0 -> <<1, 0>>
    [] k % 8 = 1 -> <<0, 1>>
    [] k % 8 = 2 -> <<0, 0>>
    [] k % 8 = 3 -> <<0, -1>>
    [] k % 8 = 4 -> <<-1, 0>>
    [] k % 8 = 5 -> <<0, -1>>
    [] k % 8 = 6 -> <<0, 0>>
    [] k % 8 = 7 -> <<0, 1>>

Sin8(k) == Cos8(k + 6)

SurdScale(n, s) == <<n * s[1], n * s[2]>>

SurdAdd(n, s) == <<n + s[1], s[2]>>

\* EllipticArc with crot = (1, 0), the x rotation 0: local_to_global adds the
\* centre.  center and radii are whole, t1 and dt are eighths of a turn.
EllipticArc(center, radii, t1, dt) ==
  [kind |-> "EllipticArc", center |-> center, radii |-> radii, t1 |-> t1, dt |-> dt]

\* elliptic_arc.rs 23-26: th = self.t1 * t + self.dt.  The arcs and the
\* parameters of the model make t1 * t a whole number of eighths.
EllipticArc_delta_at(arc, t) ==
  With((arc.t1 * t[1]) \div t[2] + arc.dt, LAMBDA th :
    <<SurdScale(arc.radii[1], Cos8(th)), SurdScale(arc.radii[2], Sin8(th))>>)

\* elliptic_arc.rs 22 and 47; every coordinate of an arc with a NaN centre is NaN
EllipticArc_at(arc, t) ==
  IF arc.center = NaNPoint THEN NaNPoint
  ELSE With(EllipticArc_delta_at(arc, t), LAMBDA p :
         <<SurdAdd(arc.center[1], p[1]), SurdAdd(arc.center[2], p[2])>>)

\* elliptic_arc.rs 58-60
EllipticArc_subcurve(arc, l, r) ==
  [arc EXCEPT !.t1 = arc.t1 + (l[1] * arc.dt) \div l[2],
              !.dt = ((r[1] * l[2] - l[1] * r[2]) * arc.dt) \div (r[2] * l[2])]

\* the point of the ellipse of the arc at the local angle th
EllipsePoint(arc, th) ==
  <<SurdAdd(arc.center[1], SurdScale(arc.radii[1], Cos8(th))),
    SurdAdd(arc.center[2], SurdScale(arc.radii[2], Sin8(th)))>>

\* curve/mod.rs 60 (at) and 85-92 (subcurve): the call goes to the variant
Curve_at(curve, t) ==
  CASE curve.kind = "Line" -> Line_at(curve, t)
    [] curve.kind = "QuadraticBezier" -> QuadraticBezier_at(curve, t)
    [] curve.kind = "CubicBezier" -> CubicBezier_at(curve, t)
    [] curve.kind = "EllipticArc" -> EllipticArc_at(curve, t)

Curve_subcurve(curve, l, r) ==
  CASE curve.kind = "Line" -> Line_subcurve(curve, l, r)
    [] curve.kind = "QuadraticBezier" -> QuadraticBezier_subcurve(curve, l, r)
    [] curve.kind = "CubicBezier" -> CubicBezier_subcurve(curve, l, r)
    [] curve.kind = "EllipticArc" -> EllipticArc_subcurve(curve, l, r)

\* the parameters 0, 1/2 and 1
Params == { <<0, 1>>, <<1, 2>>, <<1, 1>> }

\* control points of the Bezier variants
ControlPoints == { <<0, 0>>, <<2, 0>>, <<1, 3>> }

BezierCurves ==
  { [kind |-> "Line", a |-> QPoint(a), b |-> QPoint(b)] : a, b \in ControlPoints }
    \cup { [kind |-> "QuadraticBezier", a |-> QPoint(<<0, 0>>), b |-> QPoint(b),
            c |-> QPoint(c)] : b, c \in ControlPoints }
    \cup { [kind |-> "CubicBezier", a |-> QPoint(<<0, 0>>), b |-> QPoint(b),
            c |-> QPoint(c), d |-> QPoint(<<2, 0>>)] : b, c \in ControlPoints }

\* arcs of a circle and of an ellipse about the origin that start on an axis
\* and sweep a quarter or a half turn either way
ArcCurves ==
  { EllipticArc(<<0, 0>>, radii, t1, dt) :
      radii \in { <<1, 1>>, <<2, 1>> }, t1 \in {0, 2, 4}, dt \in {2, 4, -2} }

InitSubcurve ==
  /\ vertices = [v \in VertexIds |-> {}]
  /\ edges = <<>>
  /\ faces = [i \in {0} |-> Face_outer]
  /\ calls = 0
  /\ last = [op |-> "new", v1 |-> 0, v2 |-> 0, branch |-> "", panic |-> ""]
  /\ pc = "curve"
  /\ arg \in { [curve |-> c, l |-> l, r |-> r] :
                 c \in BezierCurves \cup ArcCurves, l \in Params, r \in Params }
  /\ QLeq(arg.l, arg.r)
  /\ ret = <<>>

Subcurve ==
  /\ pc = "curve"
  /\ ret' = Curve_subcurve(arg.curve, arg.l, arg.r)
  /\ pc' = "subcurve"
  /\ last' = [last EXCEPT !.op = "subcurve"]
  /\ UNCHANGED <<vertices, edges, faces, calls, arg>>

NextSubcurve == Subcurve

SpecSubcurve == InitSubcurve /\ [][NextSubcurve]_vars

\* C21 (as stated): for each variant and 0 <= a <= b <= 1, subcurve(0, 1) is
\* the curve itself, subcurve(a, b).at(0) is self.at(a) and
\* subcurve(a, b).at(1) is self.at(b)
C21_AsStated ==
  pc = "subcurve" =>
    /\ (arg.l = <<0, 1>> /\ arg.r = <<1, 1>>) => ret = arg.curve
    /\ Curve_at(ret, <<0, 1>>) = Curve_at(arg.curve, arg.l)
    /\ Curve_at(ret, <<1, 1>>) = Curve_at(arg.curve, arg.r)

\* the same for the three Bezier variants alone
C21_BezierOnly ==
  (pc = "subcurve" /\ arg.curve.kind # "EllipticArc") =>
    /\ (arg.l = <<0, 1>> /\ arg.r = <<1, 1>>) => ret = arg.curve
    /\ Curve_at(ret, <<0, 1>>) = Curve_at(arg.curve, arg.l)
    /\ Curve_at(ret, <<1, 1>>) = Curve_at(arg.curve, arg.r)

\* ---------------------------------------------------------------------------
\* path_to_curves (path/mod.rs): the iterator that cuts a command list into
\* subpaths.  The state of the iterator is first_vec, prev_vec and the place
\* of the next command; every call of next() is one step.
\* ---------------------------------------------------------------------------

MoveTo(target) == [cmd |-> "MoveTo", target |-> target]
LineTo(target) == [cmd |-> "LineTo", target |-> target]
QuadraticBezierTo(ctl, target) == [cmd |-> "QuadraticBezierTo", ctl |-> ctl, target |-> target]
CubicBezierTo(ctl1, ctl2, target) ==
  [cmd |-> "CubicBezierTo", ctl1 |-> ctl1, ctl2 |-> ctl2, target |-> target]
EllipticArcTo(radii, large_arc, positive, target) ==
  [cmd |-> "EllipticArcTo", radii |-> radii, large_arc |-> large_arc,
   sweep |-> positive, target |-> target]
ClosePath == [cmd |-> "ClosePath"]

\* == of Vec2: a NaN coordinate is equal to nothing
Vec2_eq(p, q) == p # NaNPoint /\ q # NaNPoint /\ p = q

CubicBezier(a, b, c, d) == [a |-> a, ctl |-> <<b, c>>, d |-> d]

\* atan2 of a vector along an axis, in eighths of a turn; minus_zero says that
\* the y of a vector along the negative x axis is -0.0
atan2(y, x, minus_zero) ==
  CASE x > 0 /\ y = 0 -> 0
    [] x = 0 /\ y > 0 -> 2
    [] x = 0 /\ y < 0 -> -2
    [] x < 0 /\ y = 0 -> IF minus_zero THEN -4 ELSE 4

\* elliptic_arc_gen.rs 11-39 with x rotation 0, for equal radii and a chord
\* cur - target along an axis, all coordinates even.  With
\* rr = rx^2 ypr^2 + ry^2 xpr^2 and r2 = rx^2 ry^2: r2 = 0 makes skr NaN, and
\* rr = 0 < r2 (cur = target) makes skr infinite and cpr inf * 0 = NaN, so the
\* centre and the angles are NaN.  Else the radius is at most half the chord:
\* rr >= r2, the radii become half the chord, skr = 0, cpr = (+-0, +-0) and the
\* centre is the middle of the chord.  The y of t2 is -xpr.y - cpr.y, which
\* is -0.0 when cpr was negated (large_arc = sweep).
from_path_params(cur, radii, large_arc, positive, target) ==
  With(<<(cur[1] - target[1]) \div 2, (cur[2] - target[2]) \div 2>>, LAMBDA xpr :
  With(radii[1] * radii[1] * xpr[2] * xpr[2] + radii[2] * radii[2] * xpr[1] * xpr[1],
       LAMBDA rr :
  With(radii[1] * radii[1] * radii[2] * radii[2], LAMBDA r2 :
    IF r2 = 0 \/ rr = 0
      THEN EllipticArc(NaNPoint, NaNPoint, 0, 0)
      ELSE
        With(atan2(radii[1] * xpr[2], radii[2] * xpr[1], FALSE), LAMBDA t1 :
        With(atan2(radii[1] * (-xpr[2]), radii[2] * (-xpr[1]), large_arc = positive),
             LAMBDA t2 :
          EllipticArc(
            <<(target[1] + cur[1]) \div 2, (target[2] + cur[2]) \div 2>>,
            IF rr > r2
              THEN <<AbsVal(xpr[1]) + AbsVal(xpr[2]), AbsVal(xpr[1]) + AbsVal(xpr[2])>>
              ELSE radii,
            t1,
            IF ~positive /\ t2 - t1 > 0 THEN t2 - t1 - 8
            ELSE IF positive /\ t2 - t1 < 0 THEN t2 - t1 + 8
            ELSE t2 - t1))))))

\* a point of whole coordinates, from the numbers p + q * sqrt(2)/2; a point
\* off the whole numbers keeps its two numbers and is equal to no whole point
Vec2Of(sp) ==
  IF sp = NaNPoint THEN NaNPoint
  ELSE IF sp[1][2] = 0 /\ sp[2][2] = 0 THEN <<sp[1][1], sp[2][1]>>
  ELSE <<sp[1], sp[2], "surd">>

\* at(0.0) and at(1.0) of the four curve variants
Curve_at0(curve) ==
  IF "center" \in DOMAIN curve THEN Vec2Of(EllipticArc_at(curve, <<0, 1>>)) ELSE curve.a

Curve_at1(curve) ==
  IF "center" \in DOMAIN curve THEN Vec2Of(EllipticArc_at(curve, <<1, 1>>))
  ELSE IF "ctl" \in DOMAIN curve THEN curve.d
  ELSE at_end(curve)

\* the path parameters of the arcs: pen positions of even coordinates, the
\* chord along an axis or empty, the radii equal and zero or one
ArcPoints == { <<x, y>> : x, y \in {0, 2, 4} }

ArcParams ==
  { p \in [cur : ArcPoints, radii : { <<0, 0>>, <<1, 1>> }, large_arc : BOOLEAN,
           sweep : BOOLEAN, target : ArcPoints] :
      p.cur[1] = p.target[1] \/ p.cur[2] = p.target[2] }

InitArc ==
  /\ vertices = [v \in VertexIds |-> {}]
  /\ edges = <<>>
  /\ faces = [i \in {0} |-> Face_outer]
  /\ calls = 0
  /\ last = [op |-> "new", v1 |-> 0, v2 |-> 0, branch |-> "", panic |-> ""]
  /\ pc = "params"
  /\ arg \in ArcParams
  /\ ret = <<>>

\* Curve::elliptic_arc (curve/mod.rs): the arc of the path parameters
FromPathParams ==
  /\ pc = "params"
  /\ ret' = from_path_params(arg.cur, arg.radii, arg.large_arc, arg.sweep, arg.target)
  /\ pc' = "arc"
  /\ last' = [last EXCEPT !.op = "elliptic_arc"]
  /\ UNCHANGED <<vertices, edges, faces, calls, arg>>

NextArc == FromPathParams

SpecArc == InitArc /\ [][NextArc]_vars

\* C23 (as stated): an arc is parameterised from its start angle, at(t) is
\* the point of the ellipse at the angle t1 + t * dt, and an arc built from
\* path parameters (its centre a number) starts at the current point and ends
\* at the target
C23_AsStated ==
  (pc = "arc" /\ ret.center # NaNPoint) =>
    /\ \A t \in Params :
         EllipticArc_at(ret, t) = EllipsePoint(ret, ret.t1 + (t[1] * ret.dt) \div t[2])
    /\ Vec2_eq(Vec2Of(EllipticArc_at(ret, <<0, 1>>)), arg.cur)
    /\ Vec2_eq(Vec2Of(EllipticArc_at(ret, <<1, 1>>)), arg.target)

\* the end of the arc alone: at(1) is the target
C23_EndsAtTarget ==
  (pc = "arc" /\ ret.center # NaNPoint) =>
    Vec2_eq(Vec2Of(EllipticArc_at(ret, <<1, 1>>)), arg.target)

\* the start of the arc alone: at(0) is the current point
C23_StartsAtCur ==
  (pc = "arc" /\ ret.center # NaNPoint) =>
    Vec2_eq(Vec2Of(EllipticArc_at(ret, <<0, 1>>)), arg.cur)

\* PathToCurvesIterator::next from the command at place pos on: the item
\* (NoItem for None) and the iterator afterwards
NoItem == [curves |-> <<>>, closed |-> FALSE]

RECURSIVE PathToCurvesIterator_next(_, _, _, _, _)
PathToCurvesIterator_next(path, first_vec, prev_vec, pos, curves) ==
  IF pos > Len(path)
    THEN [item |-> [curves |-> curves, closed |-> FALSE],
          first_vec |-> first_vec, prev_vec |-> prev_vec, pos |-> pos]
  ELSE LET c == path[pos] IN
    CASE c.cmd = "MoveTo" ->
           IF curves # <<>>
             THEN [item |-> [curves |-> curves, closed |-> FALSE],
                   first_vec |-> c.target, prev_vec |-> c.target, pos |-> pos + 1]
             ELSE PathToCurvesIterator_next(path, c.target, c.target, pos + 1, curves)
      [] c.cmd = "LineTo" ->
           PathToCurvesIterator_next(path, first_vec, c.target, pos + 1,
             Append(curves, Line(prev_vec, c.target)))
      [] c.cmd = "QuadraticBezierTo" ->
           PathToCurvesIterator_next(path, first_vec, c.target, pos + 1,
             Append(curves, QuadraticBezier(prev_vec, c.ctl, c.target)))
      [] c.cmd = "CubicBezierTo" ->
           PathToCurvesIterator_next(path, first_vec, c.target, pos + 1,
             Append(curves, CubicBezier(prev_vec, c.ctl1, c.ctl2, c.target)))
      [] c.cmd = "EllipticArcTo" ->
           PathToCurvesIterator_next(path, first_vec, c.target, pos + 1,
             Append(curves, from_path_params(prev_vec, c.radii, c.large_arc,
                                             c.sweep, c.target)))
      [] c.cmd = "ClosePath" ->
           LET closed == IF prev_vec # first_vec
                           THEN Append(curves, Line(prev_vec, first_vec))
                           ELSE curves
           IN  IF closed # <<>>
                 THEN [item |-> [curves |-> closed, closed |-> TRUE],
                       first_vec |-> first_vec, prev_vec |-> first_vec, pos |-> pos + 1]
                 ELSE PathToCurvesIterator_next(path, first_vec, first_vec, pos + 1, closed)

\* the command lists: at most MaxCmds commands over two pen positions
MaxCmds == 4

PenPoints == { <<0, 0>>, <<2, 0>> }

Commands ==
  { MoveTo(p) : p \in PenPoints } \cup { LineTo(p) : p \in PenPoints }
    \cup { QuadraticBezierTo(<<1, 2>>, p) : p \in PenPoints }
    \cup { CubicBezierTo(<<0, 1>>, <<2, 1>>, p) : p \in PenPoints }
    \cup { EllipticArcTo(r, FALSE, TRUE, p) : r \in { <<0, 0>>, <<1, 1>> }, p \in PenPoints }
    \cup { ClosePath }

\* path_to_curves: the iterator before the first call
InitCurves ==
  /\ vertices = [v \in VertexIds |-> {}]
  /\ edges = <<>>
  /\ faces = [i \in {0} |-> Face_outer]
  /\ calls = 0
  /\ last = [op |-> "new", v1 |-> 0, v2 |-> 0, branch |-> "", panic |-> ""]
  /\ pc = "iterating"
  /\ \E len \in 0 .. MaxCmds : arg \in [1 .. len -> Commands]
  /\ ret = [first_vec |-> <<0, 0>>, prev_vec |-> <<0, 0>>, pos |-> 1,
            out |-> <<>>, begins |-> <<>>, ends |-> <<>>]

\* one call of next(); begins and ends keep the first and the last command
\* the call read
IteratorNext ==
  /\ pc = "iterating"
  /\ LET r == PathToCurvesIterator_next(arg, ret.first_vec, ret.prev_vec, ret.pos, <<>>)
     IN  IF r.item.curves = <<>>
           THEN /\ pc' = "None"
                /\ ret' = [ret EXCEPT !.first_vec = r.first_vec,
                                      !.prev_vec = r.prev_vec, !.pos = r.pos]
           ELSE /\ pc' = "iterating"
                /\ ret' = [first_vec |-> r.first_vec, prev_vec |-> r.prev_vec,
                           pos |-> r.pos, out |-> Append(ret.out, r.item),
                           begins |-> Append(ret.begins, ret.pos),
                           ends |-> Append(ret.ends, r.pos - 1)]
  /\ last' = [last EXCEPT !.op = "next"]
  /\ UNCHANGED <<vertices, edges, faces, calls, arg>>

NextCurves == IteratorNext

SpecCurves == InitCurves /\ [][NextCurves]_vars

\* the drawing commands among the commands lo .. hi, in order
RECURSIVE DrawnBetween(_, _)
DrawnBetween(lo, hi) ==
  IF lo > hi THEN <<>>
  ELSE IF arg[lo].cmd \in {"MoveTo", "ClosePath"} THEN DrawnBetween(lo + 1, hi)
  ELSE <<arg[lo]>> \o DrawnBetween(lo + 1, hi)

\* the command a curve variant is pushed for
CommandOf(curve) ==
  IF "center" \in DOMAIN curve THEN "EllipticArcTo"
  ELSE IF "ctl" \in DOMAIN curve THEN "CubicBezierTo"
  ELSE IF IsQuad(curve) THEN "QuadraticBezierTo"
  ELSE "LineTo"

Continuous(curves) ==
  \A i \in 1 .. (Len(curves) - 1) : Vec2_eq(Curve_at0(curves[i + 1]), Curve_at1(curves[i]))

\* C16 (as stated): every subpath is non-empty, its curves are the drawing
\* commands of its stretch of the command list in order, every curve starts
\* where the one before ended, the subpath is closed exactly when a ClosePath
\* ended it, and a closed subpath ends at its first point, with a closing
\* line exactly when the pen was elsewhere
C16_AsStated ==
  \A k \in 1 .. Len(ret.out) :
    LET sub   == ret.out[k]
        hi    == ret.ends[k]
        drawn == DrawnBetween(ret.begins[k], hi)
        n     == Len(sub.curves)
    IN  /\ n > 0
        /\ Len(drawn) \in {n, n - 1}
        /\ \A i \in 1 .. Len(drawn) : CommandOf(sub.curves[i]) = drawn[i].cmd
        /\ Continuous(sub.curves)
        /\ sub.closed <=> arg[hi].cmd = "ClosePath"
        /\ sub.closed => Vec2_eq(Curve_at1(sub.curves[n]), Curve_at0(sub.curves[1]))
        /\ sub.closed =>
             (Len(drawn) = n - 1 <=>
                ~Vec2_eq(drawn[Len(drawn)].target, Curve_at0(sub.curves[1])))
        /\ ~sub.closed => Len(drawn) = n

\* ---------------------------------------------------------------------------
\* intersection (curve/intersection.rs) of two lines.  The parameters are
\* quotients of integers: a quotient is kept as <<numerator, denominator>>
\* with a positive denominator.
\* ---------------------------------------------------------------------------

Quot(n, d) == IF d < 0 THEN <<-n, -d>> ELSE <<n, d>>

\* coord_utils.rs: inside01(t) = t >= 0 && t <= 1
inside01(t) == t[1] >= 0 /\ t[1] <= t[2]

IntersectionPair(t, u) == [t |-> t, u |-> u]

\* the mutant: the two parameters of the crossing exchanged
intersection_line_line_exchanged(l1, l2) ==
  LET p == l1.a
      q == l2.a
      r == Sub(l1.b, l1.a)
      s == Sub(l2.b, l2.a)
      k == cross(r, s)
  IN  IF k = 0 THEN <<>>
      ELSE << IntersectionPair(Quot(cross(Sub(q, p), r), k), Quot(cross(Sub(q, p), s), k)) >>

\* intersection.rs 47-101.  On points of the grid, kk and (q - p) x rs are
\* roughly zero exactly when k and (q - p) x r are zero.
intersection_line_line(l1, l2) ==
  LET p == l1.a
      q == l2.a
      r == Sub(l1.b, l1.a)
      s == Sub(l2.b, l2.a)
      k == cross(r, s)
      r2 == dot(r, r)
      s2 == dot(s, s)
      tab0 == Quot(dot(Sub(q, p), r), r2)
      tab1 == Quot(dot(Sub(q, p), r) + dot(s, r), r2)
      tba0 == Quot(dot(Sub(p, q), s), s2)
      tba1 == Quot(dot(Sub(p, q), s) + dot(r, s), s2)
      zero == Quot(0, 1)
      one  == Quot(1, 1)
      tmin == IF tab0[1] < tab1[1] THEN tab0 ELSE tab1
      tmax == IF tab0[1] < tab1[1] THEN tab1 ELSE tab0
  IN  IF k = 0
      THEN IF cross(Sub(q, p), r) # 0 THEN <<>>
           ELSE IF ~(tmin[1] < tmin[2] /\ tmax[1] > 0) THEN <<>>
           ELSE IF inside01(tab0)
             THEN IF tab1[1] > tab1[2]
                    THEN << IntersectionPair(tab0, zero), IntersectionPair(one, tba1) >>
                  ELSE IF tab1[1] < 0
                    THEN << IntersectionPair(tab0, zero), IntersectionPair(zero, tba0) >>
                  ELSE << IntersectionPair(tab0, zero), IntersectionPair(tab1, one) >>
           ELSE IF tab1[1] > 0 /\ tab1[1] <= tab1[2]
             THEN IF tab0[1] < 0
                    THEN << IntersectionPair(zero, tba0), IntersectionPair(tab1, one) >>
                  ELSE << IntersectionPair(one, tba1), IntersectionPair(tab1, one) >>
           ELSE << IntersectionPair(zero, tba0), IntersectionPair(one, tba1) >>
      ELSE << IntersectionPair(Quot(cross(Sub(q, p), s), k), Quot(cross(Sub(q, p), r), k)) >>

\* the end points of the lines
LinePoints == { <<0, 0>>, <<1, 0>>, <<2, 0>>, <<3, 0>>, <<1, 1>>, <<3, 2>>, <<2, -1>> }

\* two lines of a curve list after simplify_curves: neither is degenerate
InitIntersect ==
  /\ vertices = [v \in VertexIds |-> {}]
  /\ edges = <<>>
  /\ faces = [i \in {0} |-> Face_outer]
  /\ calls = 0
  /\ last = [op |-> "new", v1 |-> 0, v2 |-> 0, branch |-> "", panic |-> ""]
  /\ pc = "curves"
  /\ \E a \in LinePoints, b \in LinePoints, c \in LinePoints, d \in LinePoints :
       /\ a # b /\ c # d
       /\ arg = <<Line(a, b), Line(c, d)>>
  /\ ret = <<>>

\* intersection(curve1, curve2, cp1, cp2) on two lines
Intersection ==
  /\ pc = "curves"
  /\ is_line(arg[1]) /\ is_line(arg[2])
  /\ ret' = intersection_line_line(arg[1], arg[2])
  /\ pc' = "intersected"
  /\ last' = [last EXCEPT !.op = "intersection"]
  /\ UNCHANGED <<vertices, edges, faces, calls, arg>>

NextIntersect == Intersection

SpecIntersect == InitIntersect /\ [][NextIntersect]_vars

\* the point of line l at the parameter t, times the denominator of t
ScaledAt(l, t) ==
  <<t[2] * l.a[1] + t[1] * (l.b[1] - l.a[1]), t[2] * l.a[2] + t[1] * (l.b[2] - l.a[2])>>

DoubleCurveVertex(pos, tex0, tex1, disjoint_union) ==
  [pos |-> pos, tex0 |-> tex0, tex1 |-> tex1, disjoint_union |-> disjoint_union]

\* the mutant: the vertices as they were given
DoubleCurveTriangle_as_given(a, b, c) == [a |-> a, b |-> b, c |-> c]

DoubleCurveTriangle_new(a, b, c) ==
  IF cross(Sub(b.pos, a.pos), Sub(c.pos, a.pos)) < 0 THEN [a |-> a, b |-> c, c |-> b]
  ELSE [a |-> a, b |-> b, c |-> c]

CornerPoints == { <<0, 0>>, <<1, 0>>, <<2, 0>>, <<0, 1>>, <<1, 1>>, <<2, 1>> }

\* the texture coordinates of the i-th given vertex: they tell the vertices
\* apart when their positions are the same
TexOf(i) == <<i, 0, 0, 1>>

\* three positions, in the order they are handed to a constructor
InitTriangles ==
  /\ vertices = [v \in VertexIds |-> {}]
  /\ edges = <<>>
  /\ faces = [i \in {0} |-> Face_outer]
  /\ calls = 0
  /\ last = [op |-> "new", v1 |-> 0, v2 |-> 0, branch |-> "", panic |-> ""]
  /\ pc = "points"
  /\ arg \in [1 .. 3 -> CornerPoints]
  /\ ret = <<>>

GivenPlain == [i \in 1 .. 3 |-> arg[i]]
GivenCurve == [i \in 1 .. 3 |-> CurveVertex(arg[i], TexOf(i))]
GivenDouble == [i \in 1 .. 3 |-> DoubleCurveVertex(arg[i], TexOf(i), TexOf(i + 3), FALSE)]

TriangleNew ==
  /\ pc = "points"
  /\ ret' = Triangle_new(GivenPlain[1], GivenPlain[2], GivenPlain[3])
  /\ pc' = "triangle"
  /\ last' = [last EXCEPT !.op = "Triangle::new"]
  /\ UNCHANGED <<vertices, edges, faces, calls, arg>>

CurveTriangleNew ==
  /\ pc = "points"
  /\ ret' = CurveTriangle_new(GivenCurve[1], GivenCurve[2], GivenCurve[3])
  /\ pc' = "curve_triangle"
  /\ last' = [last EXCEPT !.op = "CurveTriangle::new"]
  /\ UNCHANGED <<vertices, edges, faces, calls, arg>>

DoubleCurveTriangleNew ==
  /\ pc = "points"
  /\ ret' = DoubleCurveTriangle_new(GivenDouble[1], GivenDouble[2], GivenDouble[3])
  /\ pc' = "double_curve_triangle"
  /\ last' = [last EXCEPT !.op = "DoubleCurveTriangle::new"]
  /\ UNCHANGED <<vertices, edges, faces, calls, arg>>

NextTriangles == TriangleNew \/ CurveTriangleNew \/ DoubleCurveTriangleNew

SpecTriangles == InitTriangles /\ [][NextTriangles]_vars

\* the position of a vertex of a triangle of either kind
PosOf(v) == IF pc = "triangle" THEN v ELSE v.pos

\* the vertices a constructor was given
Given ==
  IF pc = "triangle" THEN GivenPlain
  ELSE IF pc = "curve_triangle" THEN GivenCurve
  ELSE GivenDouble

\* C19: the triangle a constructor returns has (b - a) x (c - a) >= 0, its a
\* is the given a, and its b and c are the given b and c, in this order or
\* exchanged
C19_CounterClockwise ==
  pc \in {"triangle", "curve_triangle", "double_curve_triangle"} =>
    /\ cross(Sub(PosOf(ret.b), PosOf(ret.a)), Sub(PosOf(ret.c), PosOf(ret.a))) >= 0
    /\ ret.a = Given[1]
    /\ <<ret.b, ret.c>> \in { <<Given[2], Given[3]>>, <<Given[3], Given[2]>> }

\* a double-curve triangle whose b and c were exchanged
C19_Witness ==
  /\ pc = "double_curve_triangle"
  /\ cross(Sub(arg[2], arg[1]), Sub(arg[3], arg[1])) < 0
  /\ ret.b = GivenDouble[3]
  /\ ret.c = GivenDouble[2]
  /\ ret.b # ret.c

\* ---------------------------------------------------------------------------
\* triangulate (triangulation/mod.rs) on the contour polygons of a face
\* ---------------------------------------------------------------------------

\* the longest contour of the catalogue
MaxCorners == 5

GridPoints == { <<x, y>> : x \in 0 .. 2, y \in 0 .. 2 }

\* a polygon that does not touch or cross itself
SimplePolygon(poly) ==
  LET n == Len(poly)
  IN  /\ \A i \in 1 .. n, j \in 1 .. n : i # j => poly[i] # poly[j]
      /\ \A i \in 1 .. n :
           LET a == poly[i]
               b == poly[NextIdx(n, i)]
               c == poly[NextIdx(n, NextIdx(n, i))]
           IN  cross(Sub(b, a), Sub(c, b)) # 0 \/ dot(Sub(b, a), Sub(c, b)) > 0
      /\ \A i \in 1 .. n, j \in 1 .. n :
           (i < j /\ NextIdx(n, i) # j /\ NextIdx(n, j) # i) =>
             ~segments_intersect(poly[i], poly[NextIdx(n, i)],
                                 poly[j], poly[NextIdx(n, j)], FALSE)

\* the faces of one contour: the simple polygons on the grid that turn
\* counter-clockwise
OneContourFaces ==
  UNION { { <<poly>> : poly \in { p \in [1 .. n -> GridPoints] :
                                    SimplePolygon(p) /\ polygon_winding(p) > 0 } } :
          n \in 3 .. MaxCorners }

\* the faces of two contours: the square 0..4 around a hole from the square
\* 1..3, the hole from any of its corners, clockwise, before or after the
\* outer contour
FacesWithHole ==
  UNION { { <<OuterSquare, Turned(InnerSquare, r, FALSE)>>,
            <<Turned(InnerSquare, r, FALSE), OuterSquare>> } : r \in 0 .. 3 }

InitTriangulate ==
  /\ vertices = [v \in VertexIds |-> {}]
  /\ edges = <<>>
  /\ faces = [i \in {0} |-> Face_outer]
  /\ calls = 0
  /\ last = [op |-> "new", v1 |-> 0, v2 |-> 0, branch |-> "", panic |-> ""]
  /\ pc = "polygons"
  /\ arg \in OneContourFaces \cup FacesWithHole
  /\ ret = <<>>

Triangulate ==
  /\ pc = "polygons"
  /\ ret' = triangulate(arg)
  /\ pc' = IF ret'.panic = "" THEN "triangles" ELSE "panic"
  /\ last' = [last EXCEPT !.op = "triangulate"]
  /\ UNCHANGED <<vertices, edges, faces, calls, arg>>

NextTriangulate == Triangulate

SpecTriangulate == InitTriangulate /\ [][NextTriangulate]_vars

\* twice the area of the triangles from the i-th on
RECURSIVE TrianglesArea(_, _)
TrianglesArea(tris, i) ==
  IF i > Len(tris) THEN 0
  ELSE cross(Sub(tris[i].b, tris[i].a), Sub(tris[i].c, tris[i].a)) + TrianglesArea(tris, i + 1)

\* twice the signed area the contours enclose: a clockwise hole counts
\* negative
RECURSIVE ContoursArea(_, _)
ContoursArea(contours, k) ==
  IF k > Len(contours) THEN 0
  ELSE polygon_winding(contours[k]) + ContoursArea(contours, k + 1)

\* C20 (as stated): triangulate returns triangles whose areas add up to the
\* area the contours of the face enclose
C20_AsStated ==
  last.op = "triangulate" =>
    /\ pc = "triangles"
    /\ TrianglesArea(ret.triangles, 1) = ContoursArea(arg, 1)

\* ---------------------------------------------------------------------------
\* Vec::remove_indices (vec_utils.rs 34-57) on its own: a vector of at most
\* MaxVecLen elements and a non-empty list of at most MaxIndices places of it
\* ---------------------------------------------------------------------------

MaxVecLen == 4

MaxIndices == 3

VecElems == { "a", "b" }

RemoveArgs ==
  UNION { { [self |-> s, indices |-> ix] :
              s \in [1 .. n -> VecElems],
              ix \in UNION { [1 .. m -> 0 .. (n - 1)] : m \in 1 .. MaxIndices } } :
          n \in 1 .. MaxVecLen }

InitRemove ==
  /\ vertices = [v \in VertexIds |-> {}]
  /\ edges = <<>>
  /\ faces = [i \in {0} |-> Face_outer]
  /\ calls = 0
  /\ last = [op |-> "new", v1 |-> 0, v2 |-> 0, branch |-> "", panic |-> ""]
  /\ pc = "vec"
  /\ arg \in RemoveArgs
  /\ ret = <<>>

RemoveIndices ==
  /\ pc = "vec"
  /\ ret' = remove_indices(arg.self, arg.indices)
  /\ pc' = IF ret'.panic = "" THEN "removed" ELSE "panic"
  /\ last' = [last EXCEPT !.op = "remove_indices"]
  /\ UNCHANGED <<vertices, edges, faces, calls, arg>>

NextRemove == RemoveIndices

SpecRemove == InitRemove /\ [][NextRemove]_vars

\* the elements of self at the places (from 0) outside S, in their order
RECURSIVE KeptFrom(_, _, _)
KeptFrom(self, S, i) ==
  IF i >= Len(self) THEN <<>>
  ELSE IF i \in S THEN KeptFrom(self, S, i + 1)
  ELSE <<self[i + 1]>> \o KeptFrom(self, S, i + 1)

\* C30 (as stated): for a non-empty list of places of the vector, in any
\* order and with repeats, remove_indices does not panic, removes the
\* elements at those places and keeps the others in their order
C30_AsStated ==
  pc # "vec" =>
    /\ pc = "removed"
    /\ ret.vec = KeptFrom(arg.self, SeqToSet(arg.indices), 0)

\* when the last place of the vector is among the indices the call returns
\* what the statement says
C30_LastPlaceRemoved ==
  (pc # "vec" /\ Len(arg.self) - 1 \in SeqToSet(arg.indices)) =>
    /\ pc = "removed"
    /\ ret.vec = KeptFrom(arg.self, SeqToSet(arg.indices), 0)

\* when it is not, the call panics
C30_ElsePanics ==
  (pc # "vec" /\ Len(arg.self) - 1 \notin SeqToSet(arg.indices)) => pc = "panic"

\* ---------------------------------------------------------------------------
\* EdgeKey::cmp (triangulation/edge.rs 27-59) on its own, for every pair of
\* keys over a grid of points; a key with a = b is the point key of search_edge
\* ---------------------------------------------------------------------------

KeyPoints == { <<x, y>> : x, y \in 0 .. 2 }

EdgeKeys == { EdgeKey(a, b) : a, b \in KeyPoints }

InitEdgeKey ==
  /\ vertices = [v \in VertexIds |-> {}]
  /\ edges = <<>>
  /\ faces = [i \in {0} |-> Face_outer]
  /\ calls = 0
  /\ last = [op |-> "new", v1 |-> 0, v2 |-> 0, branch |-> "", panic |-> ""]
  /\ pc = "keys"
  /\ arg \in [a : EdgeKeys, b : EdgeKeys]
  /\ ret = <<>>

\* a.cmp(&b) and b.cmp(&a)
EdgeKeyCmp ==
  /\ pc = "keys"
  /\ ret' = [ab |-> EdgeKey_cmp(arg.a, arg.b), ba |-> EdgeKey_cmp(arg.b, arg.a)]
  /\ pc' = "compared"
  /\ last' = [last EXCEPT !.op = "cmp"]
  /\ UNCHANGED <<vertices, edges, faces, calls, arg>>

NextEdgeKey == EdgeKeyCmp

SpecEdgeKey == InitEdgeKey /\ [][NextEdgeKey]_vars

\* C29 (as stated): cmp returns for every pair of keys, point keys included,
\* is Equal exactly for the same undirected segment, and cmp(a, b) is the
\* reverse of cmp(b, a)
C29_AsStated ==
  pc = "compared" =>
    /\ ret.ab # Diverges
    /\ ret.ab = 0 <=> EdgeKey_eq(arg.a, arg.b)
    /\ ret.ab = -ret.ba

\* the call returns
C29_Terminates == pc = "compared" => ret.ab # Diverges

\* when both calls return, Equal is only said of the same undirected segment
C29_EqualIsSame ==
  (pc = "compared" /\ ret.ab # Diverges /\ ret.ba # Diverges) =>
    (ret.ab = 0 <=> EdgeKey_eq(arg.a, arg.b))

\* when both calls return, one is the reverse of the other
C29_Antisymmetric ==
  (pc = "compared" /\ ret.ab # Diverges /\ ret.ba # Diverges) => ret.ab = -ret.ba

\* a point key against a segment that does not hold the point is never Equal
\* and the call returns
C29_PointOffSegment ==
  (/\ pc = "compared"
   /\ arg.a.a = arg.a.b
   /\ arg.b.a # arg.b.b
   /\ cross(Sub(arg.b.b, arg.b.a), Sub(arg.a.a, arg.b.a)) # 0) =>
    ret.ab \in {-1, 1} /\ ret.ab = -ret.ba

\* ---------------------------------------------------------------------------
\* subdivide_overlapping (path/subdivision.rs 33-183), step by step, on faces
\* of lines and quadratic curves with coordinates that are quotients of whole
\* numbers.  roughly_equals is taken as equality.
\* ---------------------------------------------------------------------------

VCross(u, w) == QSub(QMul(u[1], w[2]), QMul(u[2], w[1]))

QSign(x) == IF x[1] > 0 THEN 1 ELSE IF x[1] < 0 THEN -1 ELSE 0

QAbs(x) == <<AbsVal(x[1]), x[2]>>

\* Curve::is_line, mod.rs 136-141
Curve_is_line(curve) == curve.kind = "Line"

\* Coord::roughly_zero, coord_utils.rs 39, EPSILON = 1 / 2^15: -EPSILON < x <
\* EPSILON for the quotient x = n / d, that is |n| * 2^15 < d
Coord_roughly_zero(x) == AbsVal(x[1]) <= (x[2] - 1) \div 32768

\* Vec2::roughly_zero, vec2.rs 44: length_sq() is within EPSILON2 = 1 / 2^30
\* of zero, which no vector with a coordinate outside EPSILON is
Vec2_roughly_zero(v) ==
  /\ Coord_roughly_zero(v[1])
  /\ Coord_roughly_zero(v[2])
  /\ With(QAdd(QMul(v[1], v[1]), QMul(v[2], v[2])), LAMBDA l :
          AbsVal(l[1]) <= (l[2] - 1) \div 1073741824)

\* Vec2::roughly_equals, vec2.rs 45; every comparison with NaN is false
Vec2_roughly_equals(p, q) ==
  IF p = NaNPoint \/ q = NaNPoint THEN FALSE ELSE Vec2_roughly_zero(VSub(p, q))

\* simplification.rs 22-32; the radii of the arcs are whole numbers
is_curve_degenerate(curve) ==
  CASE curve.kind = "Line" -> Vec2_roughly_equals(curve.a, curve.b)
    [] curve.kind = "QuadraticBezier" ->
         Vec2_roughly_equals(curve.a, curve.b) /\ Vec2_roughly_equals(curve.b, curve.c)
    [] curve.kind = "CubicBezier" ->
         /\ Vec2_roughly_equals(curve.a, curve.b)
         /\ Vec2_roughly_equals(curve.b, curve.c)
         /\ Vec2_roughly_equals(curve.c, curve.d)
    [] curve.kind = "EllipticArc" -> curve.radii = <<0, 0>>

\* line.rs 29 and quadratic_bezier.rs 44-46
Curve_winding(curve) ==
  IF curve.kind = "Line" THEN VCross(curve.a, curve.b)
  ELSE QMul(Q(1, 3),
            QAdd(QAdd(QMul(QInt(2), VCross(curve.a, curve.b)),
                      QMul(QInt(2), VCross(curve.b, curve.c))),
                 VCross(curve.a, curve.c)))

\* mod.rs 126-132
Curve_winding_at_midpoint(curve) ==
  With(Curve_at(curve, <<0, 1>>), LAMBDA p0 :
  With(Curve_at(curve, <<1, 1>>), LAMBDA p1 :
    QSub(Curve_winding(curve), VCross(VMul(Q(1, 2), VAdd(p0, p1)), VSub(p1, p0)))))

\* mod.rs 134
Curve_is_convex(curve) == QSign(Curve_winding_at_midpoint(curve)) > 0

\* the directions of entry_tangent() and exit_tangent(), line.rs 46-48 and
\* quadratic_bezier.rs 75-77, before they are normalized
Curve_entry_tangent(curve) == VSub(curve.b, curve.a)

Curve_exit_tangent(curve) ==
  IF curve.kind = "Line" THEN VSub(curve.b, curve.a) ELSE VSub(curve.c, curve.b)

\* the vector of whole numbers without a common factor in the direction of v
PrimDir(v) ==
  With(<<v[1][1] * v[2][2], v[2][1] * v[1][2]>>, LAMBDA w :
  With(Gcd(AbsVal(w[1]), AbsVal(w[2])), LAMBDA g :
    IF g = 0 THEN <<0, 0>> ELSE <<w[1] \div g, w[2] \div g>>))

\* subdivision.rs 17-25.  The dot product of the normalized tangents is NaN
\* when one of them is the zero vector, and then `>= -0.99` is false; else
\* it is at least -0.99 when it is not negative or its square is at most 0.9801.
\* The tangents and the convexity are those of lines and quadratic curves:
\* no two arcs of the faces of the model get past the first test.
Curve_eligible(c1, c2) ==
  IF Curve_at(c1, <<1, 1>>) # Curve_at(c2, <<0, 1>>) THEN FALSE
  ELSE With(PrimDir(Curve_exit_tangent(c1)), LAMBDA u :
       With(PrimDir(Curve_entry_tangent(c2)), LAMBDA w :
       With(dot(u, w), LAMBDA d :
         IF /\ u # <<0, 0>>
            /\ w # <<0, 0>>
            /\ (d >= 0 \/ 10000 * d * d <= 9801 * dot(u, u) * dot(w, w))
         THEN FALSE
         ELSE Curve_is_convex(c1) # Curve_is_convex(c2))))

\* subdivision.rs 13-29
Curve_are_fusable(c1, c2) ==
  IF Curve_is_line(c1) \/ Curve_is_line(c2) THEN FALSE
  ELSE Curve_eligible(c1, c2) \/ Curve_eligible(c2, c1)

\* the width of usize in bits; the builds have 32 or 64, the model takes a
\* narrow word and keeps every formula
UsizeBits == 4

RECURSIVE Pow2(_)
Pow2(n) == IF n = 0 THEN 1 ELSE 2 * Pow2(n - 1)

\* usize::leading_zeros
RECURSIVE BitLen(_)
BitLen(n) == IF n = 0 THEN 0 ELSE 1 + BitLen(n \div 2)

leading_zeros(n) == UsizeBits - BitLen(n)

\* i << radix of usize
Shl(i, radix) == (i * Pow2(radix)) % Pow2(UsizeBits)

\* subdivision.rs 31
avg(a, b) == a \div 2 + b \div 2 + (IF a % 2 = 1 /\ b % 2 = 1 THEN 1 ELSE 0)

\* an entry (j, begin, end, curve) of the vector curves.  src, lo and hi are
\* not kept by the code: the curve of the input contour the entry is a piece
\* of, and the stretch of its parameters
KeyedCurve(j, begin, end, curve, src, lo, hi) ==
  [j |-> j, begin |-> begin, end |-> end, curve |-> curve, src |-> src, lo |-> lo, hi |-> hi]

\* subdivision.rs 38-43: the entries of the contours from j (from 0) on
RECURSIVE keyed_curves(_, _)
keyed_curves(contours, j) ==
  IF j >= Len(contours) THEN <<>>
  ELSE With(leading_zeros(Len(contours[j + 1])), LAMBDA radix :
         [i \in 1 .. Len(contours[j + 1]) |->
            KeyedCurve(j, Shl(i - 1, radix), Shl(i, radix), contours[j + 1][i],
                       i - 1, <<0, 1>>, <<1, 1>>)])
       \o keyed_curves(contours, j + 1)

\* subdivision.rs 46-54; node counts from 0
subdivide_curve_in(t, curves, node) ==
  With(curves[node + 1], LAMBDA e :
  With(avg(e.begin, e.end), LAMBDA mid :
  With(QAdd(e.lo, QMul(t, QSub(e.hi, e.lo))), LAMBDA cut :
    Append([curves EXCEPT ![node + 1] =
              KeyedCurve(e.j, e.begin, mid, Curve_subcurve(e.curve, <<0, 1>>, t),
                         e.src, e.lo, cut)],
           KeyedCurve(e.j, mid, e.end, Curve_subcurve(e.curve, t, <<1, 1>>),
                      e.src, cut, e.hi)))))

Half == <<1, 2>>

\* the result of get_intersection_info_from_curves: None, or Some of the
\* flags (l1, l2, k1, k2)
NoInfo == <<>>

Infos == {NoInfo} \cup (BOOLEAN \X BOOLEAN \X BOOLEAN \X BOOLEAN)

\* the chain of subdivision.rs 75-83 with the last two arms exchanged: k1
\* cuts the first curve and k2 the second
subdivision_of_own_curve(info) ==
  With(info[1], LAMBDA l1 : With(info[2], LAMBDA l2 :
  With(info[3], LAMBDA k1 : With(info[4], LAMBDA k2 :
    IF (~l1 /\ ~l2 /\ ~k1 /\ ~k2) \/ (l1 /\ l2) \/ (k1 /\ k2) THEN "both"
    ELSE IF l1 /\ ~k1 THEN "n1"
    ELSE IF l2 /\ ~k2 THEN "n2"
    ELSE IF k1 THEN "n1"
    ELSE IF k2 THEN "n2"
    ELSE "unreachable"))))

\* subdivision.rs 75-83: which of the two curves the flags have cut
subdivision_of(info) ==
  With(info[1], LAMBDA l1 : With(info[2], LAMBDA l2 :
  With(info[3], LAMBDA k1 : With(info[4], LAMBDA k2 :
    IF (~l1 /\ ~l2 /\ ~k1 /\ ~k2) \/ (l1 /\ l2) \/ (k1 /\ k2) THEN "both"
    ELSE IF l1 /\ ~k1 THEN "n1"
    ELSE IF l2 /\ ~k2 THEN "n2"
    ELSE IF k1 THEN "n2"
    ELSE IF k2 THEN "n1"
    ELSE "unreachable"))))

\* subdivision.rs 74-84 for the pair (n1, n2) and the info of its curves
subdivide_pair(curves, n1, n2, info) ==
  IF info = NoInfo THEN curves
  ELSE With(subdivision_of(info), LAMBDA s :
    IF s = "both"
      THEN subdivide_curve_in(Half, subdivide_curve_in(Half, curves, n1), n2)
    ELSE IF s = "n1" THEN subdivide_curve_in(Half, curves, n1)
    ELSE IF s = "n2" THEN subdivide_curve_in(Half, curves, n2)
    ELSE curves)

\* subdivision.rs 61-67: the first pair at or after (n1, n2), in the order of
\* the two loops, whose curves are both not degenerate; <<>> when the round
\* has no more pairs
RECURSIVE next_pair(_, _, _, _)
next_pair(curves, old_len, n1, n2) ==
  IF n1 >= old_len THEN <<>>
  ELSE IF is_curve_degenerate(curves[n1 + 1].curve) \/ n2 >= old_len
    THEN next_pair(curves, old_len, n1 + 1, n1 + 2)
  ELSE IF is_curve_degenerate(curves[n2 + 1].curve)
    THEN next_pair(curves, old_len, n1, n2 + 1)
  ELSE <<n1, n2>>

\* the key (j, begin) of sort_unstable_by_key, subdivision.rs 90, 120 and 176
KeyBefore(e, f) == e.j < f.j \/ (e.j = f.j /\ e.begin < f.begin)

\* the vectors sort_unstable_by_key can leave: the entries at the places S of
\* curves in the order of their keys, entries of equal key in any order
RECURSIVE sorted_by_key(_, _)
sorted_by_key(curves, S) ==
  IF S = {} THEN {<<>>}
  ELSE UNION { { <<curves[m]>> \o rest : rest \in sorted_by_key(curves, S \ {m}) } :
               m \in { k \in S : \A o \in S : ~KeyBefore(curves[o], curves[k]) } }

\* curves.swap(x, y), places from 0
swap(curves, x, y) ==
  [curves EXCEPT ![x + 1] = curves[y + 1], ![y + 1] = curves[x + 1]]

\* the locals of subdivide_overlapping
Locals(curves, old_len, n1, n2, i, j, old_i, in_while, contours) ==
  [curves |-> curves, old_len |-> old_len, n1 |-> n1, n2 |-> n2, i |-> i, j |-> j,
   old_i |-> old_i, in_while |-> in_while, contours |-> contours]

\* subdivision.rs 58-61 after a visit: the next pair of the round, or the
\* next round, or the end of the loop
after_pair(curves, old_len, np) ==
  IF np # <<>> THEN [pc |-> "pairs", old_len |-> old_len, n1 |-> np[1], n2 |-> np[2]]
  ELSE IF Len(curves) = old_len THEN [pc |-> "sort1", old_len |-> old_len, n1 |-> 0, n2 |-> 0]
  ELSE With(next_pair(curves, Len(curves), 0, 1), LAMBDA first :
         IF first = <<>>
           THEN [pc |-> "sort1", old_len |-> Len(curves), n1 |-> 0, n2 |-> 0]
           ELSE [pc |-> "pairs", old_len |-> Len(curves), n1 |-> first[1], n2 |-> first[2]])

\* the pieces the overlap loop may make of a face
MaxPieces == 5

\* the curves of the faces of the catalogue
QLine(a, b) == [kind |-> "Line", a |-> QPoint(a), b |-> QPoint(b)]

QQuad(a, b, c) == [kind |-> "QuadraticBezier", a |-> QPoint(a), b |-> QPoint(b), c |-> QPoint(c)]

\* a triangle of lines; the two curves of a crescent with its tips at (0,0)
\* and closed by a line, from each of its three curves on; a triangle with a
\* two-line needle; a lens of two curves and a triangle; a square; a
\* triangle with a degenerate line; a lens of two curves; the corner between
\* a quarter of the unit circle and two lines
Horn1 == QQuad(<<4, 1>>, <<2, 0>>, <<0, 0>>)

Horn2 == QQuad(<<0, 0>>, <<2, 0>>, <<4, 2>>)

HornLine == QLine(<<4, 2>>, <<4, 1>>)

SubdivideFaces ==
  { [contours |-> <<>>],
    [contours |-> << <<QLine(<<0, 0>>, <<4, 0>>), QLine(<<4, 0>>, <<0, 4>>),
                       QLine(<<0, 4>>, <<0, 0>>)>> >>],
    [contours |-> << <<Horn1, Horn2, HornLine>> >>],
    [contours |-> << <<Horn2, HornLine, Horn1>> >>],
    [contours |-> << <<HornLine, Horn1, Horn2>> >>],
    [contours |-> << <<QLine(<<0, 0>>, <<4, 0>>), QLine(<<4, 0>>, <<0, 4>>),
                       QLine(<<0, 4>>, <<0, 0>>)>>,
                     <<QLine(<<1, 1>>, <<2, 1>>), QLine(<<2, 1>>, <<1, 1>>)>> >>],
    [contours |-> << <<QQuad(<<0, 0>>, <<2, 2>>, <<4, 0>>), QQuad(<<4, 0>>, <<2, -2>>, <<0, 0>>)>>,
                     <<QLine(<<1, 0>>, <<3, 0>>), QLine(<<3, 0>>, <<2, 1>>),
                       QLine(<<2, 1>>, <<1, 0>>)>> >>],
    [contours |-> << <<QLine(<<0, 0>>, <<4, 0>>), QLine(<<4, 0>>, <<4, 4>>),
                       QLine(<<4, 4>>, <<0, 4>>), QLine(<<0, 4>>, <<0, 0>>)>> >>],
    [contours |-> << <<QLine(<<0, 0>>, <<4, 0>>), QLine(<<4, 0>>, <<4, 0>>),
                       QLine(<<4, 0>>, <<0, 4>>), QLine(<<0, 4>>, <<0, 0>>)>> >>],
    [contours |-> << <<QQuad(<<0, 0>>, <<2, 2>>, <<4, 0>>),
                       QQuad(<<4, 0>>, <<2, -2>>, <<0, 0>>)>> >>],
    [contours |-> << <<EllipticArc(<<0, 0>>, <<1, 1>>, 4, 2),
                       QLine(<<0, -1>>, <<-1, -1>>), QLine(<<-1, -1>>, <<-1, 0>>)>> >>] }

InitSubdivide ==
  /\ vertices = [v \in VertexIds |-> {}]
  /\ edges = <<>>
  /\ faces = [i \in {0} |-> Face_outer]
  /\ calls = 0
  /\ last = [op |-> "new", v1 |-> 0, v2 |-> 0, branch |-> "", panic |-> ""]
  /\ pc = "face"
  /\ arg \in SubdivideFaces
  /\ ret = <<>>

\* subdivision.rs 33-43 and the first test of the loop at 58
Begin ==
  /\ pc = "face"
  /\ IF arg.contours = <<>>
       THEN /\ pc' = "done"
            /\ ret' = Locals(<<>>, 0, 0, 0, 0, 0, 0, FALSE, <<>>)
       ELSE With(keyed_curves(arg.contours, 0), LAMBDA curves :
            With(after_pair(curves, 0, <<>>), LAMBDA a :
              /\ pc' = a.pc
              /\ ret' = Locals(curves, a.old_len, a.n1, a.n2, 0, 0, 0, FALSE, <<>>)))
  /\ last' = [op |-> "begin", panic |-> ""]
  /\ UNCHANGED <<vertices, edges, faces, calls, arg>>

\* the number of curves subdivision.rs 75-83 cuts on the flags info
cuts(info) ==
  CASE subdivision_of(info) = "both" -> 2
    [] subdivision_of(info) \in {"n1", "n2"} -> 1
    [] subdivision_of(info) = "unreachable" -> 0

\* an arc of the model is cut in two while its halves are whole eighths
Cuttable(curve) == IF curve.kind = "EllipticArc" THEN curve.dt % 2 = 0 ELSE TRUE

\* subdivision.rs 65-86 for one pair (n1, n2): the info of the two curves is
\* whatever get_intersection_info_from_curves finds of them
VisitPair ==
  /\ pc = "pairs"
  /\ \E info \in { f \in Infos : IF f = NoInfo THEN TRUE
                                    ELSE /\ Len(ret.curves) + cuts(f) <= MaxPieces
                                         /\ Cuttable(ret.curves[ret.n1 + 1].curve)
                                         /\ Cuttable(ret.curves[ret.n2 + 1].curve) } :
     \E curves \in {subdivide_pair(ret.curves, ret.n1, ret.n2, info)} :
     \E a \in {after_pair(curves, ret.old_len,
                          next_pair(curves, ret.old_len, ret.n1, ret.n2 + 1))} :
       /\ pc' = IF info # NoInfo /\ subdivision_of(info) = "unreachable"
                  THEN "panic" ELSE a.pc
       /\ ret' = [ret EXCEPT !.curves = curves, !.old_len = a.old_len,
                             !.n1 = a.n1, !.n2 = a.n2]
       /\ last' = [op |-> "pair", n1 |-> ret.n1, n2 |-> ret.n2, info |-> info,
                   before |-> ret.curves,
                   panic |-> IF info # NoInfo /\ subdivision_of(info) = "unreachable"
                               THEN "unreachable" ELSE ""]
  /\ UNCHANGED <<vertices, edges, faces, calls, arg>>

\* subdivision.rs 90, 120 and 176: curves.sort_unstable_by_key
SortCurves ==
  /\ pc \in {"sort1", "sort2", "sort3"}
  /\ \E sorted \in sorted_by_key(ret.curves, 1 .. Len(ret.curves)) :
       ret' = [ret EXCEPT !.curves = sorted, !.i = 0, !.j = 0, !.old_i = 0,
                          !.in_while = FALSE]
  /\ pc' = CASE pc = "sort1" -> "triples" [] pc = "sort2" -> "windings"
             [] pc = "sort3" -> "extract"
  /\ last' = [op |-> "sort", panic |-> ""]
  /\ UNCHANGED <<vertices, edges, faces, calls, arg>>

\* the entry of curves at place k (from 0) is of the contour j
InContour(curves, k, j) == k < Len(curves) /\ curves[k + 1].j = j

\* subdivision.rs 104-105: the places ik and ikk of the triple at place i
triple_ik(curves, i, j, old_i) == IF InContour(curves, i + 1, j) THEN i + 1 ELSE old_i

triple_ikk(curves, i, j, old_i) == IF InContour(curves, i + 2, j) THEN i + 2 ELSE old_i + 1

\* subdivision.rs 108-113 for the triple (i, ik, ikk): curves[ikk] is read
\* only when the first two curves are fusable
triple_body(curves, i, ik, ikk) ==
  IF ~Curve_are_fusable(curves[i + 1].curve, curves[ik + 1].curve)
    THEN [curves |-> curves, split |-> FALSE, panic |-> ""]
  ELSE IF ikk >= Len(curves)
    THEN [curves |-> curves, split |-> FALSE, panic |-> "index"]
  ELSE IF ~Curve_are_fusable(curves[ik + 1].curve, curves[ikk + 1].curve)
    THEN [curves |-> curves, split |-> FALSE, panic |-> ""]
  ELSE [curves |-> swap(subdivide_curve_in(Half, curves, ik), ik, Len(curves)),
        split |-> TRUE, panic |-> ""]

TripleDone(step, r, panic) ==
  /\ ret' = r
  /\ pc' = IF panic # "" THEN "panic" ELSE "triples"
  /\ last' = [op |-> step, j |-> ret.j, i |-> ret.i, old_i |-> r.old_i,
              ik |-> 0, ikk |-> 0, before |-> ret.curves, split |-> FALSE, panic |-> panic]

TripleExamined(ik, ikk, b) ==
  /\ ret' = [ret EXCEPT !.curves = b.curves, !.i = ret.i + 1]
  /\ pc' = IF b.panic # "" THEN "panic" ELSE "triples"
  /\ last' = [op |-> "triple", j |-> ret.j, i |-> ret.i, old_i |-> ret.old_i,
              ik |-> ik, ikk |-> ikk, before |-> ret.curves, split |-> b.split,
              panic |-> b.panic]

\* subdivision.rs 94-117, one step: the head of the loop over the contours
\* (96-101), or one round of the loop over the curves of a contour (102-116)
FusableTriples ==
  /\ pc = "triples"
  /\ IF ret.j >= Len(arg.contours)
       THEN /\ pc' = "sort2"
            /\ ret' = ret
            /\ last' = [op |-> "triples_end", panic |-> ""]
     ELSE IF ~ret.in_while
       THEN IF ret.i + 1 < Len(ret.curves)
               /\ ret.curves[ret.i + 1].j # ret.curves[ret.i + 2].j
              THEN TripleDone("skip", [ret EXCEPT !.i = ret.i + 1, !.j = ret.j + 1], "")
            ELSE IF ret.i + 2 < Len(ret.curves)
                    /\ ret.curves[ret.i + 2].j # ret.curves[ret.i + 3].j
              THEN TripleDone("skip", [ret EXCEPT !.i = ret.i + 2, !.j = ret.j + 1], "")
            ELSE IF ret.i >= Len(ret.curves)
              THEN TripleDone("enter", ret, "index")
            ELSE IF ret.curves[ret.i + 1].j # ret.j
              THEN TripleDone("enter", ret, "assert_eq")
            ELSE TripleDone("enter", [ret EXCEPT !.old_i = ret.i, !.in_while = TRUE], "")
     ELSE IF InContour(ret.curves, ret.i, ret.j)
       THEN TripleExamined(triple_ik(ret.curves, ret.i, ret.j, ret.old_i),
                           triple_ikk(ret.curves, ret.i, ret.j, ret.old_i),
                           triple_body(ret.curves, ret.i,
                                       triple_ik(ret.curves, ret.i, ret.j, ret.old_i),
                                       triple_ikk(ret.curves, ret.i, ret.j, ret.old_i)))
     ELSE TripleDone("leave", [ret EXCEPT !.in_while = FALSE, !.j = ret.j + 1], "")
  /\ UNCHANGED <<vertices, edges, faces, calls, arg>>

\* |winding_at_midpoint()| of the piece of curve from l to r
piece_winding(curve, l, r) == QAbs(Curve_winding_at_midpoint(Curve_subcurve(curve, l, r)))

\* subdivision.rs 143-150: t is halved, from 1, until the end piece of curve
\* from 1 - t on winds at most 32 times bound.  With bound = 0 the halving
\* goes on until the winding has underflowed; the model takes t = 0 then.
RECURSIVE halve_end(_, _, _)
halve_end(curve, bound, t) ==
  IF QLeq(piece_winding(curve, QSub(QOne, t), QOne), QMul(QInt(32), bound)) THEN t
  ELSE IF bound[1] = 0 THEN <<0, 1>>
  ELSE halve_end(curve, bound, QMul(Half, t))

\* subdivision.rs 157-162: the same for the piece of curve from 0 to t
RECURSIVE halve_start(_, _, _)
halve_start(curve, bound, t) ==
  IF QLeq(piece_winding(curve, <<0, 1>>, t), QMul(QInt(32), bound)) THEN t
  ELSE IF bound[1] = 0 THEN <<0, 1>>
  ELSE halve_start(curve, bound, QMul(Half, t))

\* subdivision.rs 137-169 for the fusable pair (i, ik)
balance_pair(curves, i, ik) ==
  With(halve_end(curves[i + 1].curve,
                 QAbs(Curve_winding_at_midpoint(curves[ik + 1].curve)), QOne), LAMBDA t :
    IF t # QOne THEN subdivide_curve_in(QSub(QOne, t), curves, i)
    ELSE With(halve_start(curves[ik + 1].curve,
                          QAbs(Curve_winding_at_midpoint(curves[i + 1].curve)), QOne),
              LAMBDA t2 :
           IF t2 # QOne THEN subdivide_curve_in(t2, curves, ik) ELSE curves))

\* subdivision.rs 132-172: the loop over the curves of the contour j from i on
RECURSIVE balance_contour(_, _, _, _)
balance_contour(curves, i, j, old_i) ==
  IF ~InContour(curves, i, j) THEN [curves |-> curves, i |-> i]
  ELSE With(triple_ik(curves, i, j, old_i), LAMBDA ik :
         balance_contour(
           IF Curve_are_fusable(curves[i + 1].curve, curves[ik + 1].curve)
             THEN balance_pair(curves, i, ik) ELSE curves,
           i + 1, j, old_i))

\* subdivision.rs 124-173: the loop over the contours from j on
RECURSIVE balance_windings(_, _, _, _)
balance_windings(curves, len, i, j) ==
  IF j >= len THEN [curves |-> curves, panic |-> ""]
  ELSE IF i + 1 < Len(curves) /\ curves[i + 1].j # curves[i + 2].j
    THEN balance_windings(curves, len, i + 1, j + 1)
  ELSE IF i >= Len(curves) THEN [curves |-> curves, panic |-> "index"]
  ELSE IF curves[i + 1].j # j THEN [curves |-> curves, panic |-> "assert_eq"]
  ELSE With(balance_contour(curves, i, j, i), LAMBDA r :
         balance_windings(r.curves, len, r.i, j + 1))

WindingsBalanced(r) ==
  /\ ret' = [ret EXCEPT !.curves = r.curves]
  /\ pc' = IF r.panic # "" THEN "panic" ELSE "sort3"
  /\ last' = [op |-> "windings", before |-> ret.curves, panic |-> r.panic]

BalanceWindings ==
  /\ pc = "windings"
  /\ WindingsBalanced(balance_windings(ret.curves, Len(arg.contours), 0, 0))
  /\ UNCHANGED <<vertices, edges, faces, calls, arg>>

\* subdivision.rs 178-182: the entries of the contour j, in their order
contour_of(curves, j) == SelectSeq(curves, LAMBDA e : e.j = j)

Extract ==
  /\ pc = "extract"
  /\ ret' = [ret EXCEPT !.contours =
               [j \in 1 .. Len(arg.contours) |-> contour_of(ret.curves, j - 1)]]
  /\ pc' = "done"
  /\ last' = [op |-> "extract", panic |-> ""]
  /\ UNCHANGED <<vertices, edges, faces, calls, arg>>

NextSubdivide ==
  \/ Begin
  \/ VisitPair
  \/ SortCurves
  \/ FusableTriples
  \/ BalanceWindings
  \/ Extract

SpecSubdivide == InitSubdivide /\ [][NextSubdivide]_vars

\* ---------------------------------------------------------------------------
\* The table of the flags (l1, l2, k1, k2), its rows from the top: each row
\* is the values the row takes of each flag (Star for "*") and the curves it
\* has cut.  The flags 1 1 0 1 and 1 1 1 0 match two rows of different
\* actions: the row of a combination is the first one that matches it.
\* ---------------------------------------------------------------------------
Star == BOOLEAN

Is0 == {FALSE}

Is1 == {TRUE}

TableRows ==
  << <<<<Is0, Is0, Is0, Is0>>, {1, 2}>>,
     <<<<Is1, Is1, Star, Star>>, {1, 2}>>,
     <<<<Star, Star, Is1, Is1>>, {1, 2}>>,
     <<<<Is1, Is0, Is0, Star>>, {1}>>,
     <<<<Is0, Is1, Star, Is0>>, {2}>>,
     <<<<Star, Star, Is1, Is0>>, {2}>>,
     <<<<Star, Star, Is0, Is1>>, {1}>> >>

RowMatches(row, info) == \A f \in 1 .. 4 : info[f] \in row[1][f]

\* the rows of the table that match info and have no matching row above them
FirstRows(info) ==
  { r \in 1 .. Len(TableRows) :
      /\ RowMatches(TableRows[r], info)
      /\ \A above \in 1 .. r - 1 : ~RowMatches(TableRows[above], info) }

\* the vector after has the curve at place n of before cut at 0.5: its first
\* half at n and its second half at place
HalvedAt(before, after, n, place) ==
  /\ place <= Len(after)
  /\ after[n + 1].curve = Curve_subcurve(before[n + 1].curve, <<0, 1>>, <<1, 2>>)
  /\ after[place].curve = Curve_subcurve(before[n + 1].curve, <<1, 2>>, <<1, 1>>)

\* the vector after is before with exactly the curves of cut (1 for the curve
\* at n1, 2 for the curve at n2) cut at 0.5
TableAction(before, after, n1, n2, cut) ==
  /\ Len(after) = Len(before) + Cardinality(cut)
  /\ 1 \in cut => HalvedAt(before, after, n1, Len(before) + 1)
  /\ 2 \in cut => HalvedAt(before, after, n2, Len(after))
  /\ \A k \in 1 .. Len(before) :
       (k = n1 + 1 /\ 1 \in cut) \/ (k = n2 + 1 /\ 2 \in cut) \/ after[k] = before[k]

\* C26: for every combination of the flags (l1, l2, k1, k2) that
\* get_intersection_info_from_curves returns for a pair, a row of the table
\* matches, the loop has cut exactly the curves of the first matching row,
\* each at 0.5 and no other curve, and unreachable!() is not reached
C26_TableAction ==
  (pc # "face" /\ last.op = "pair" /\ last.info # NoInfo) =>
    /\ last.panic = ""
    /\ pc # "panic"
    /\ FirstRows(last.info) # {}
    /\ \A r \in FirstRows(last.info) :
         TableAction(last.before, ret.curves, last.n1, last.n2, TableRows[r][2])

\* a pair whose flags 0 1 1 0 have cut its second curve, a quadratic one
C26_Witness ==
  /\ pc # "face"
  /\ last.op = "pair"
  /\ last.info = <<FALSE, TRUE, TRUE, FALSE>>
  /\ last.before[last.n2 + 1].curve.kind = "QuadraticBezier"
  /\ Len(ret.curves) = Len(last.before) + 1

\* ---------------------------------------------------------------------------
\* The fusable-triple pass, subdivision.rs 92-117
\* ---------------------------------------------------------------------------

\* the entries of curves stand in the order of their keys
InKeyOrder(curves) == \A k \in 1 .. Len(curves) - 1 : KeyBefore(curves[k], curves[k + 1])

\* the number of curves of the contour j in curves
ContourLen(curves, j) == Cardinality({ k \in 1 .. Len(curves) : curves[k].j = j })

\* the step before was a round of the triple loop on a vector still in the
\* order of its keys, in a contour of three curves or more
TripleStepInOrder ==
  /\ pc # "face"
  /\ last.op = "triple"
  /\ last.panic = ""
  /\ InKeyOrder(last.before)
  /\ ContourLen(last.before, last.j) >= 3

\* the places, in the vector, of the curves c[(p+1) mod n] and c[(p+2) mod n]
\* after the curve c[p] at the place i of a contour of n curves from old_i on
CyclicNext(old_i, n, i, step) == old_i + ((i - old_i + step) % n)

\* C25: at every position of a contour of n >= 3 curves the pass examines
\* the curves c[i], c[(i+1) mod n] and c[(i+2) mod n] of the contour, and it
\* has cut the middle one at 0.5 whenever the first is fusable with the
\* second and the second with the third
C25_AsStated ==
  TripleStepInOrder =>
    /\ last.ik = CyclicNext(last.old_i, ContourLen(last.before, last.j), last.i, 1)
    /\ last.ikk = CyclicNext(last.old_i, ContourLen(last.before, last.j), last.i, 2)
    /\ (/\ Curve_are_fusable(last.before[last.i + 1].curve, last.before[last.ik + 1].curve)
        /\ Curve_are_fusable(last.before[last.ik + 1].curve,
                             last.before[CyclicNext(last.old_i,
                                                    ContourLen(last.before, last.j),
                                                    last.i, 2) + 1].curve))
         => last.split

\* at every position but the last but one of the contour the triple is the
\* cyclically consecutive one, and a cut is at 0.5 of the middle curve with
\* its second half left in the place of the curve
C25_ElsewhereCyclic ==
  TripleStepInOrder =>
    /\ last.ik = CyclicNext(last.old_i, ContourLen(last.before, last.j), last.i, 1)
    /\ last.i - last.old_i # ContourLen(last.before, last.j) - 2 =>
         last.ikk = CyclicNext(last.old_i, ContourLen(last.before, last.j), last.i, 2)
    /\ last.split =>
         /\ ret.curves[last.ik + 1].curve
              = Curve_subcurve(last.before[last.ik + 1].curve, <<1, 2>>, <<1, 1>>)
         /\ ret.curves[Len(ret.curves)].curve
              = Curve_subcurve(last.before[last.ik + 1].curve, <<0, 1>>, <<1, 2>>)

\* at the last position but one the third curve is c[1], not c[0]
C25_LastButOne ==
  (TripleStepInOrder /\ last.i - last.old_i = ContourLen(last.before, last.j) - 2) =>
    last.ikk = last.old_i + 1

\* a middle curve is never cut unless it is fusable with the curve after it
\* in the contour
C25_NoSpuriousCut ==
  (TripleStepInOrder /\ last.split) =>
    Curve_are_fusable(last.before[last.ik + 1].curve,
                      last.before[CyclicNext(last.old_i, ContourLen(last.before, last.j),
                                             last.i, 2) + 1].curve)

\* ---------------------------------------------------------------------------
\* The contours subdivide_overlapping returns, subdivision.rs 176-182
\* ---------------------------------------------------------------------------

\* the piece q comes right after the piece p in the traversal of a contour:
\* the next stretch of the same curve, or the first stretch of the next curve
\* after the last stretch of this one
NextInTraversal(p, q) ==
  \/ q.src = p.src /\ q.lo = p.hi
  \/ q.src = p.src + 1 /\ p.hi = <<1, 1>> /\ q.lo = <<0, 1>>

\* the pieces are those of the n curves of a contour in traversal order:
\* from the start of curve 0 to the end of curve n - 1 with no stretch left
\* out or out of its place, each piece the stretch of its curve
InTraversalOrder(pieces, contour) ==
  /\ Len(pieces) >= Len(contour)
  /\ contour # <<>> =>
       /\ pieces[1].src = 0 /\ pieces[1].lo = <<0, 1>>
       /\ pieces[Len(pieces)].src = Len(contour) - 1
       /\ pieces[Len(pieces)].hi = <<1, 1>>
  /\ \A k \in 1 .. Len(pieces) - 1 : NextInTraversal(pieces[k], pieces[k + 1])

\* consecutive stretches of one curve are joined end to start, the first
\* starts where the curve starts and the last ends where it ends
PiecesJoined(pieces, contour) ==
  /\ \A k \in 1 .. Len(pieces) - 1 :
       (pieces[k].src = pieces[k + 1].src /\ pieces[k].hi = pieces[k + 1].lo) =>
         Curve_at(pieces[k].curve, <<1, 1>>) = Curve_at(pieces[k + 1].curve, <<0, 1>>)
  /\ \A k \in 1 .. Len(pieces) :
       /\ pieces[k].lo = <<0, 1>> =>
            Curve_at(pieces[k].curve, <<0, 1>>) = Curve_at(contour[pieces[k].src + 1], <<0, 1>>)
       /\ pieces[k].hi = <<1, 1>> =>
            Curve_at(pieces[k].curve, <<1, 1>>) = Curve_at(contour[pieces[k].src + 1], <<1, 1>>)

Returned22 == pc = "done" /\ arg.contours # <<>>

KeysLeft(curves) == \A k \in 1 .. Len(curves) : curves[k].begin < curves[k].end

\* while no key has run out the pieces are returned in traversal order
C22_OrderWhileKeysLeft ==
  (Returned22 /\ KeysLeft(ret.curves)) =>
    /\ Len(ret.contours) = Len(arg.contours)
    /\ \A j \in 1 .. Len(arg.contours) :
         InTraversalOrder(ret.contours[j], arg.contours[j])

\* the pieces are returned in traversal order, whatever the keys
C22_Order ==
  Returned22 =>
    \A j \in 1 .. Len(arg.contours) : InTraversalOrder(ret.contours[j], arg.contours[j])

\* the pieces of lines and quadratic curves are joined
C22_BezierJoined ==
  Returned22 =>
    \A j \in 1 .. Len(arg.contours) :
      PiecesJoined(SelectSeq(ret.contours[j], LAMBDA p : p.curve.kind # "EllipticArc"),
                   arg.contours[j])

\* the pieces of every curve are joined, the arcs too
C22_Joined ==
  Returned22 =>
    \A j \in 1 .. Len(arg.contours) : PiecesJoined(ret.contours[j], arg.contours[j])

\* ---------------------------------------------------------------------------
\* coord_extrapolator (path/curve_vertices.rs 180-241) on vertices whose
\* positions and texture coordinates are quotients of whole numbers.  A
\* quotient by zero is infinite or NaN: the result is then NotFinite.
\* ---------------------------------------------------------------------------
NotFinite == <<>>

VDot(u, w) == QAdd(QMul(u[1], w[1]), QMul(u[2], w[2]))

\* x / y of two quotients, y # 0
QDiv(x, y) == Q(x[1] * y[2], x[2] * y[1])

\* Vec4: a + b, a - b and k * a
V4Add(a, b) == [c \in 1 .. 4 |-> QAdd(a[c], b[c])]

V4Sub(a, b) == [c \in 1 .. 4 |-> QSub(a[c], b[c])]

V4Mul(k, a) == [c \in 1 .. 4 |-> QMul(k, a[c])]

\* Coord::roughly_zero_squared, coord_utils.rs 40, EPSILON2 = 1 / 2^30:
\* -EPSILON2 < x < EPSILON2 for the quotient x = n / d, that is |n| * 2^30 < d
roughly_zero_squared(x) == AbsVal(x[1]) <= (x[2] - 1) \div 1073741824

\* curve_vertices.rs 207-209: the winding of the triple of vertices at i,
\* (i+1) % len and (i+2) % len, places from 0
triple_winding(vs, i) ==
  With(vs[i + 1].pos, LAMBDA p :
  With(vs[((i + 1) % Len(vs)) + 1].pos, LAMBDA pk :
  With(vs[((i + 2) % Len(vs)) + 1].pos, LAMBDA pk2 :
    QAdd(QAdd(VCross(p, pk), VCross(pk, pk2)), VCross(pk2, p)))))

\* curve_vertices.rs 204-214: the place at which the loop stops, from i on
RECURSIVE chosen_triple(_, _)
chosen_triple(vs, i) ==
  IF i >= Len(vs) THEN i
  ELSE IF roughly_zero_squared(triple_winding(vs, i)) THEN i
  ELSE chosen_triple(vs, i + 1)

\* curve_vertices.rs 221-224: imin and imax after the vertices up to place i
RECURSIVE widest(_, _, _, _)
widest(vs, i, imin, imax) ==
  IF i >= Len(vs) THEN <<imin, imax>>
  ELSE widest(vs, i + 1,
              IF QLeq(vs[imin + 1].pos[1], vs[i + 1].pos[1]) THEN imin ELSE i,
              IF QLeq(vs[i + 1].pos[1], vs[imax + 1].pos[1]) THEN imax ELSE i)

\* curve_vertices.rs 188-195
extrapolate_line(va, vb, x) ==
  With(VSub(vb.pos, va.pos), LAMBDA dx :
    IF VDot(dx, dx)[1] = 0 THEN NotFinite
    ELSE V4Add(va.tex, V4Mul(QDiv(VDot(VSub(x, va.pos), dx), VDot(dx, dx)),
                             V4Sub(vb.tex, va.tex))))

\* curve_vertices.rs 228-239
extrapolate_triangle(vi, vik, vik2, x) ==
  With(VCross(vik.pos, vik2.pos), LAMBDA k :
    IF k[1] = 0 THEN NotFinite
    ELSE V4Add(V4Add(vi.tex,
                     V4Mul(QDiv(VCross(VSub(x, vi.pos), vik2.pos), k),
                           V4Sub(vik.tex, vi.tex))),
               V4Mul(QDiv(QSub(<<0, 1>>, VCross(VSub(x, vi.pos), vik.pos)), k),
                     V4Sub(vik2.tex, vi.tex))))

\* curve_vertices.rs 180-241; places from 0
coord_extrapolator(vs, x) ==
  CASE Len(vs) = 0 ->
         [branch |-> "zero", i |-> 0, ik |-> 0, tex |-> [c \in 1 .. 4 |-> <<0, 1>>]]
    [] Len(vs) = 1 ->
         [branch |-> "one", i |-> 0, ik |-> 0, tex |-> vs[1].tex]
    [] Len(vs) = 2 ->
         [branch |-> "line", i |-> 0, ik |-> 1,
          tex |-> extrapolate_line(vs[1], vs[2], x)]
    [] Len(vs) >= 3 ->
         With(chosen_triple(vs, 0), LAMBDA i :
           IF i = Len(vs)
             THEN With(widest(vs, 1, 0, 0), LAMBDA w :
                    [branch |-> "line", i |-> w[1], ik |-> w[2],
                     tex |-> extrapolate_line(vs[w[1] + 1], vs[w[2] + 1], x)])
             ELSE [branch |-> "triangle", i |-> i, ik |-> (i + 1) % Len(vs),
                   tex |-> extrapolate_triangle(vs[i + 1],
                                                vs[((i + 1) % Len(vs)) + 1],
                                                vs[((i + 2) % Len(vs)) + 1], x)])

\* the positions of the vertices and of x, and the texture coordinates of the
\* vertex at each place
ExtrapolatorPoints == { QPoint(<<px, py>>) : px \in 0 .. 2, py \in 0 .. 1 }

ExtrapolatorTex(k) == <<QInt(k - 1), Q(k - 1, 2), QInt(1), QInt(1)>>

ExtrapolatorArgs ==
  { [vertices |-> [k \in 1 .. Len(ps) |-> [pos |-> ps[k], tex |-> ExtrapolatorTex(k)]],
     x |-> x] :
      ps \in { s \in UNION { [1 .. n -> ExtrapolatorPoints] : n \in 2 .. 4 } :
                 \A a, b \in DOMAIN s : a # b => s[a] # s[b] },
      x \in { QPoint(<<1, 0>>), QPoint(<<2, 2>>) } }

InitExtrapolator ==
  /\ vertices = [v \in VertexIds |-> {}]
  /\ edges = <<>>
  /\ faces = [i \in {0} |-> Face_outer]
  /\ calls = 0
  /\ last = [op |-> "new", v1 |-> 0, v2 |-> 0, branch |-> "", panic |-> ""]
  /\ pc = "args"
  /\ arg \in ExtrapolatorArgs
  /\ ret = <<>>

CoordExtrapolator ==
  /\ pc = "args"
  /\ ret' = coord_extrapolator(arg.vertices, arg.x)
  /\ pc' = "done"
  /\ UNCHANGED <<vertices, edges, faces, calls, last, arg>>

NextExtrapolator == CoordExtrapolator

SpecExtrapolator == InitExtrapolator /\ [][NextExtrapolator]_vars

\* the triple of vertices at i, (i+1) % len and (i+2) % len has an area
NonCollinear(vs, i) == triple_winding(vs, i)[1] # 0

Returned27 == pc = "done" /\ Len(arg.vertices) >= 3

\* C27: given three or more vertices, coord_extrapolator extrapolates from a
\* triple of vertices that are not collinear whenever the vertices have such
\* a consecutive triple, and along the widest baseline only when every
\* consecutive triple is collinear
C27_AsStated ==
  Returned27 =>
    /\ (\E i \in 0 .. Len(arg.vertices) - 1 : NonCollinear(arg.vertices, i)) =>
         ret.branch = "triangle" /\ NonCollinear(arg.vertices, ret.i)
    /\ ret.branch = "line" =>
         \A i \in 0 .. Len(arg.vertices) - 1 : ~NonCollinear(arg.vertices, i)

\* what the loop does: it stops at the first consecutive triple that IS
\* collinear and extrapolates from it, and goes along the line between the
\* vertices of least and greatest x when no consecutive triple is collinear
C27_FirstCollinearTriple ==
  Returned27 =>
    /\ ret.branch = "triangle" <=>
         \E i \in 0 .. Len(arg.vertices) - 1 : ~NonCollinear(arg.vertices, i)
    /\ ret.branch = "triangle" =>
         /\ ~NonCollinear(arg.vertices, ret.i)
         /\ \A i \in 0 .. ret.i - 1 : NonCollinear(arg.vertices, i)
    /\ ret.branch = "line" =>
         \A k \in 1 .. Len(arg.vertices) :
           /\ QLeq(arg.vertices[ret.i + 1].pos[1], arg.vertices[k].pos[1])
           /\ QLeq(arg.vertices[k].pos[1], arg.vertices[ret.ik + 1].pos[1])

\* three vertices that are not collinear are extrapolated from as a triangle
C27_TriangleOfThree ==
  (Returned27 /\ Len(arg.vertices) = 3 /\ NonCollinear(arg.vertices, 0)) =>
    ret.branch = "triangle"

\* ---------------------------------------------------------------------------
\* simplify_curves (curve/simplification.rs).  The control points are
\* quotients of integers, so the tolerance tests and the curve evaluations
\* are exact.
\* ---------------------------------------------------------------------------

QCubic(a, b, c, d) ==
  [kind |-> "CubicBezier", a |-> QPoint(a), b |-> QPoint(b), c |-> QPoint(c), d |-> QPoint(d)]

Curve_line(a, b) == [kind |-> "Line", a |-> a, b |-> b]

QNeg(x) == <<-x[1], x[2]>>

QLess(x, y) == x[1] * y[2] < y[1] * x[2]

\* the whole part of the square root of n, by bisection
RECURSIVE ISqrtIn(_, _, _)
ISqrtIn(n, lo, hi) ==
  IF lo >= hi THEN lo
  ELSE With((lo + hi + 1) \div 2, LAMBDA m :
         IF m * m <= n THEN ISqrtIn(n, m, hi) ELSE ISqrtIn(n, lo, m - 1))

ISqrt(n) == ISqrtIn(n, 0, IF n < 46340 THEN n ELSE 46340)

QIsSquare(x) ==
  /\ x[1] >= 0
  /\ ISqrt(x[1]) * ISqrt(x[1]) = x[1]
  /\ ISqrt(x[2]) * ISqrt(x[2]) = x[2]

QSqrt(x) == <<ISqrt(x[1]), ISqrt(x[2])>>

\* roots::find_roots_linear(a1, a0): the root 0 when a1 = a0 = 0, no root when
\* only a1 = 0, and -a0 / a1 otherwise
find_roots_linear(a1, a0) ==
  IF a1[1] = 0 THEN (IF a0[1] = 0 THEN << <<0, 1>> >> ELSE <<>>)
  ELSE << QDiv(QNeg(a0), a1) >>

Discriminant(p) == QSub(QMul(p[2], p[2]), QMul(QInt(4), QMul(p[1], p[3])))

\* roots::find_roots_quadratic(a2, a1, a0) for the polynomial p = <<a2, a1,
\* a0>>: the linear case when a2 = 0, no root for a negative discriminant, one
\* for a zero discriminant, otherwise the two roots in ascending order.  The
\* empty p stands for coefficients that are infinite or NaN: the roots are
\* NaN then, and no caller keeps a NaN root.
find_roots_quadratic(p) ==
  IF p = <<>> THEN <<>>
  ELSE IF p[1][1] = 0 THEN find_roots_linear(p[2], p[3])
  ELSE With(Discriminant(p), LAMBDA D :
         IF D[1] < 0 THEN <<>>
         ELSE IF D[1] = 0 THEN << QDiv(QNeg(p[2]), QMul(QInt(2), p[1])) >>
         ELSE With(QDiv(QSub(QNeg(p[2]), QSqrt(D)), QMul(QInt(2), p[1])), LAMBDA x1 :
              With(QDiv(QAdd(QNeg(p[2]), QSqrt(D)), QMul(QInt(2), p[1])), LAMBDA x2 :
                IF QLess(x1, x2) THEN <<x1, x2>> ELSE <<x2, x1>>)))

\* the roots of p are quotients of integers
ExactRoots(p) ==
  \/ p = <<>>
  \/ p[1][1] = 0
  \/ Discriminant(p)[1] <= 0
  \/ QIsSquare(Discriminant(p))

RECURSIVE QInsert(_, _)
QInsert(s, t) ==
  IF s = <<>> THEN <<t>>
  ELSE IF QLeq(t, Head(s)) THEN <<t>> \o s
  ELSE <<Head(s)>> \o QInsert(Tail(s), t)

\* sort_by(|a, b| a.partial_cmp(b).unwrap()) of parameters that are numbers
RECURSIVE QSort(_)
QSort(s) == IF s = <<>> THEN <<>> ELSE QInsert(QSort(Tail(s)), Head(s))

\* the parameters of s that inside01 keeps, in ascending order
SortedInside01(s) == QSort(SelectSeq(s, inside01))

\* for i in 1..ts.len(): Piece(ts[i-1], ts[i])
PiecesBetween(ts, Piece(_, _)) == [i \in 1 .. Len(ts) - 1 |-> Piece(ts[i], ts[i + 1])]

Midpoint(p, q) == VMul(Half, VAdd(p, q))

\* u.normalized().cross(w.normalized()).roughly_zero(): the sine of the angle
\* between u and w is within EPSILON of zero; normalized() of the zero vector
\* is NaN, and NaN is not roughly zero
roughly_parallel(u, w) ==
  IF u = QPoint(<<0, 0>>) \/ w = QPoint(<<0, 0>>) THEN FALSE
  ELSE With(VCross(u, w), LAMBDA x :
         roughly_zero_squared(QDiv(QMul(x, x), QMul(VDot(u, u), VDot(w, w)))))

\* simplification.rs 43-66.  tm = d.a.x / (d.a.x - d.b.x) with d the
\* derivative (2(b - a), 2(c - b)): infinite when only the divisor is zero,
\* and then discarded by tm < 0 || tm > 1; NaN when both are zero, and then
\* neither comparison holds, so that the curve is cut at q.at(NaN)
simplify_quadratic_bezier(q) ==
  IF Vec2_roughly_equals(q.a, q.b) THEN << Curve_line(Midpoint(q.a, q.b), q.c) >>
  ELSE IF Vec2_roughly_equals(q.b, q.c) THEN << Curve_line(q.a, Midpoint(q.b, q.c)) >>
  ELSE IF roughly_parallel(VSub(q.c, q.b), VSub(q.b, q.a))
  THEN With(QMul(QInt(2), QSub(q.b[1], q.a[1])), LAMBDA dax :
       With(QMul(QInt(2), QSub(q.c[1], q.b[1])), LAMBDA dbx :
         IF dax = dbx
         THEN IF dax[1] = 0
              THEN << Curve_line(q.a, NaNPoint), Curve_line(NaNPoint, q.c) >>
              ELSE << Curve_line(q.a, q.c) >>
         ELSE With(QDiv(dax, QSub(dax, dbx)), LAMBDA tm :
                IF ~inside01(tm) THEN << Curve_line(q.a, q.c) >>
                ELSE << Curve_line(q.a, QuadraticBezier_at(q, tm)),
                        Curve_line(QuadraticBezier_at(q, tm), q.c) >>)))
  ELSE << [kind |-> "QuadraticBezier", a |-> q.a, b |-> q.b, c |-> q.c] >>

\* simplification.rs 70-86: the branch that simplify_cubic_bezier takes
cubic_branch(c) ==
  IF Vec2_roughly_equals(c.a, c.b) /\ Vec2_roughly_equals(c.c, c.d) THEN "line"
  ELSE IF /\ \/ Vec2_roughly_equals(c.a, c.b)
             \/ roughly_parallel(VSub(c.b, c.a), VSub(c.c, c.b))
          /\ \/ Vec2_roughly_equals(c.a, c.b)
             \/ roughly_parallel(VSub(c.d, c.c), VSub(c.c, c.b))
  THEN "lines"
  ELSE IF Vec2_roughly_zero(VAdd(VSub(c.a, VMul(QInt(3), c.b)),
                                 VSub(VMul(QInt(3), c.c), c.d)))
  THEN "quadratic"
  ELSE "general"

\* simplification.rs 74 with quadratic_bezier.rs 61-63: the polynomial of
\* c.derivative().intersection_x(0.0)
extremum_polynomial(c) ==
  With(CubicBezier_derivative(c), LAMBDA d :
    << QAdd(QSub(d.a[1], QMul(QInt(2), d.b[1])), d.c[1]),
       QMul(QInt(2), QSub(d.b[1], d.a[1])),
       d.a[1] >>)

\* vec2.rs 29-33
rot_scale(u, w) ==
  << QSub(QMul(u[1], w[1]), QMul(u[2], w[2])),
     QAdd(QMul(u[1], w[2]), QMul(u[2], w[1])) >>

\* simplification.rs 112-121 for the (rotated) differences da, db, dc and
\* c3 = da + dc - 2 db: the polynomial of the loop points.  bb is infinite or
\* NaN when c2.y = 0.
loop_coefficients(da, db, c3) ==
  With(VMul(QInt(3), VSub(db, da)), LAMBDA c2 :
  With(VMul(QInt(3), da), LAMBDA c1 :
    IF c2[2][1] = 0 THEN <<>>
    ELSE With(QDiv(QNeg(c1[2]), c2[2]), LAMBDA bb :
         With(QDiv(c1[1], c3[1]), LAMBDA s1 :
         With(QDiv(c2[1], c3[1]), LAMBDA s2 :
           << QInt(1), QNeg(bb), QAdd(QMul(bb, QAdd(bb, s2)), s1) >>)))))

\* simplification.rs 91-122: the polynomial of the loop points, or none when
\* the cross products rule out a loop
loop_polynomial(c) ==
  With(VSub(c.b, c.a), LAMBDA da :
  With(VSub(c.c, c.b), LAMBDA db :
  With(VSub(c.d, c.c), LAMBDA dc :
    IF ~QLeq(QMul(VCross(da, dc), VCross(da, dc)),
             QMul(QInt(4), QMul(VCross(da, db), VCross(db, dc))))
    THEN <<>>
    ELSE With(VSub(VAdd(da, dc), VMul(QInt(2), db)), LAMBDA c3 :
           IF Coord_roughly_zero(c3[2])
           THEN loop_coefficients(da, db, c3)
           ELSE With(<<c3[1], QNeg(c3[2])>>, LAMBDA k :
                  loop_coefficients(rot_scale(da, k), rot_scale(db, k),
                                    VSub(VAdd(rot_scale(da, k), rot_scale(dc, k)),
                                         VMul(QInt(2), rot_scale(db, k)))))))))

\* simplification.rs 125-135: the polynomial of the inflection points
inflection_polynomial(c) ==
  LET axby == QMul(c.a[1], c.b[2])  axcy == QMul(c.a[1], c.c[2])  axdy == QMul(c.a[1], c.d[2])
      bxay == QMul(c.b[1], c.a[2])  bxcy == QMul(c.b[1], c.c[2])  bxdy == QMul(c.b[1], c.d[2])
      cxay == QMul(c.c[1], c.a[2])  cxby == QMul(c.c[1], c.b[2])  cxdy == QMul(c.c[1], c.d[2])
      dxay == QMul(c.d[1], c.a[2])  dxby == QMul(c.d[1], c.b[2])  dxcy == QMul(c.d[1], c.c[2])
      Sum(s) == QAdd(QAdd(QAdd(s[1], s[2]), QAdd(s[3], s[4])),
                     QAdd(QAdd(s[5], s[6]), QAdd(QAdd(s[7], s[8]), QAdd(s[9], s[10]))))
      k(n, x) == QMul(QInt(n), x)
  IN  << QAdd(Sum(<< axby, k(-2, axcy), axdy, QNeg(bxay), k(3, bxcy), k(-2, bxdy),
                     k(2, cxay), k(-3, cxby), cxdy, QNeg(dxay) >>),
              QSub(k(2, dxby), dxcy)),
         Sum(<< k(-2, axby), k(3, axcy), QNeg(axdy), k(2, bxay), k(-3, bxcy), bxdy,
                k(-3, cxay), k(3, cxby), dxay, QNeg(dxby) >>),
         QAdd(QAdd(QSub(axby, axcy), QSub(bxcy, bxay)), QSub(cxay, cxby)) >>

\* simplification.rs 68-142
simplify_cubic_bezier(c) ==
  CASE cubic_branch(c) = "line" ->
         << Curve_line(Midpoint(c.a, c.b), Midpoint(c.c, c.d)) >>
    [] cubic_branch(c) = "lines" ->
         PiecesBetween(
           SortedInside01(find_roots_quadratic(extremum_polynomial(c)) \o << <<0, 1>>, <<1, 1>> >>),
           LAMBDA l, r : Curve_line(CubicBezier_at(c, l), CubicBezier_at(c, r)))
    [] cubic_branch(c) = "quadratic" ->
         << [kind |-> "QuadraticBezier",
             a |-> c.a,
             b |-> VMul(Q(1, 4), VAdd(VSub(VMul(QInt(3), c.b), c.a),
                                      VSub(VMul(QInt(3), c.c), c.d))),
             c |-> c.c] >>
    [] cubic_branch(c) = "general" ->
         PiecesBetween(
           SortedInside01(<< <<0, 1>>, <<1, 1>> >>
                            \o find_roots_quadratic(loop_polynomial(c))
                            \o find_roots_quadratic(inflection_polynomial(c))),
           LAMBDA l, r : CubicBezier_subcurve(c, l, r))

\* Coord::wrap_angle, coord_utils.rs 30, in eighths of a turn: round() goes
\* away from zero at the half
wrap_angle(th) ==
  th + 8 * (IF -th >= 0 THEN (-th + 4) \div 8 ELSE -((th + 4) \div 8))

lesser_angle(arc) == IF arc.dt < 0 THEN arc.t1 + arc.dt ELSE arc.t1

greater_angle(arc) == IF arc.dt < 0 THEN arc.t1 ELSE arc.t1 + arc.dt

\* elliptic_arc.rs 31-45; the empty parameter stands for INFINITY
angle_to_param(arc, theta) ==
  LET cands == { wrap_angle(theta) + 8 * i : i \in -2 .. 2 }
      hits  == { x \in cands : lesser_angle(arc) <= x /\ x <= greater_angle(arc) }
  IN  IF hits = {} THEN <<>>
      ELSE With(CHOOSE x \in hits : \A y \in hits : x <= y, LAMBDA cand :
             Q(cand - arc.t1, arc.dt))

\* ceil and floor of th / FRAC_PI_2, th in eighths of a turn
CeilQuarter(th) == -((-th) \div 2)

FloorQuarter(th) == th \div 2

RECURSIVE arc_tests(_, _, _)
arc_tests(arc, k, kn) ==
  IF k > kn THEN <<>>
  ELSE With(angle_to_param(arc, 2 * k), LAMBDA t :
         (IF t # <<>> /\ inside01(t) THEN <<t>> ELSE <<>>) \o arc_tests(arc, k + 1, kn))

ArcPoint(arc, t) == QPoint(Vec2Of(EllipticArc_at(arc, t)))

\* simplification.rs 144-162; the radii are whole numbers
simplify_elliptic_arc(a) ==
  IF a.radii[1] = 0 \/ a.radii[2] = 0
  THEN PiecesBetween(
         QSort(<< <<0, 1>>, <<1, 1>> >>
                 \o arc_tests(a, CeilQuarter(lesser_angle(a)), FloorQuarter(greater_angle(a)))),
         LAMBDA l, r : Curve_line(ArcPoint(a, l), ArcPoint(a, r)))
  ELSE << a >>

\* simplification.rs 34-41
simplify_curve(curve) ==
  CASE curve.kind = "Line" -> << Curve_line(curve.a, curve.b) >>
    [] curve.kind = "QuadraticBezier" -> simplify_quadratic_bezier(curve)
    [] curve.kind = "CubicBezier" -> simplify_cubic_bezier(curve)
    [] curve.kind = "EllipticArc" -> simplify_elliptic_arc(curve)

NotDegenerate(curve) == ~is_curve_degenerate(curve)

\* simplification.rs 11-20
RECURSIVE simplify_curves(_)
simplify_curves(curves) ==
  IF curves = <<>> THEN <<>>
  ELSE SelectSeq(IF is_curve_degenerate(Head(curves)) THEN <<>>
                 ELSE simplify_curve(Head(curves)),
                 NotDegenerate)
         \o simplify_curves(Tail(curves))

\* the curves simplified: the first control point at the origin, the others on
\* a grid
SimplifyMaxX == 3

SimplifyMaxY == 2

SimplifyPoints == { <<px, py>> : px \in 0 .. SimplifyMaxX, py \in 0 .. SimplifyMaxY }

\* every root that simplify_cubic_bezier takes for c is a quotient of integers
ExactCubic(c) ==
  CASE cubic_branch(c) = "lines" -> ExactRoots(extremum_polynomial(c))
    [] cubic_branch(c) = "general" ->
         ExactRoots(loop_polynomial(c)) /\ ExactRoots(inflection_polynomial(c))
    [] OTHER -> TRUE

SimplifyCurvesOf ==
  { QLine(<<0, 0>>, b) : b \in SimplifyPoints }
    \cup { QQuad(<<0, 0>>, b, c) : b, c \in SimplifyPoints }
    \cup { k \in { QCubic(<<0, 0>>, b, c, d) : b, c, d \in SimplifyPoints } : ExactCubic(k) }
    \cup { EllipticArc(<<0, 0>>, r, t1, dt) :
             r \in { <<0, 0>>, <<1, 0>>, <<0, 1>>, <<2, 1>> },
             t1 \in { 0, 4 }, dt \in { 2, 4, -2, -4 } }

InitSimplify ==
  /\ vertices = [v \in VertexIds |-> {}]
  /\ edges = <<>>
  /\ faces = [i \in {0} |-> Face_outer]
  /\ calls = 0
  /\ last = [op |-> "new", v1 |-> 0, v2 |-> 0, branch |-> "", panic |-> ""]
  /\ pc = "curves"
  /\ arg \in { <<curve>> : curve \in SimplifyCurvesOf }
  /\ ret = <<>>

SimplifyCurves ==
  /\ pc = "curves"
  /\ ret' = simplify_curves(arg)
  /\ pc' = "simplified"
  /\ UNCHANGED <<vertices, edges, faces, calls, last, arg>>

NextSimplify == SimplifyCurves

SpecSimplify == InitSimplify /\ [][NextSimplify]_vars

\* the ends of a curve: at(0.0) and at(1.0)
Curve_start(curve) ==
  CASE curve.kind = "EllipticArc" -> ArcPoint(curve, <<0, 1>>)
    [] OTHER -> curve.a

Curve_end(curve) ==
  CASE curve.kind = "Line" -> curve.b
    [] curve.kind = "QuadraticBezier" -> curve.c
    [] curve.kind = "CubicBezier" -> curve.d
    [] curve.kind = "EllipticArc" -> ArcPoint(curve, <<1, 1>>)

\* out is a chain from curve.at(0) to curve.at(1); no piece is left of a
\* curve only when the curve ends where it starts
JointsPreserved(curve, out) ==
  IF out = <<>> THEN Vec2_roughly_equals(Curve_start(curve), Curve_end(curve))
  ELSE /\ Vec2_roughly_equals(Curve_start(out[1]), Curve_start(curve))
       /\ Vec2_roughly_equals(Curve_end(out[Len(out)]), Curve_end(curve))
       /\ \A i \in 1 .. Len(out) - 1 :
            Vec2_roughly_equals(Curve_end(out[i]), Curve_start(out[i + 1]))

Simplified28 == pc = "simplified" /\ ~is_curve_degenerate(arg[1])

\* C28: simplify_curves preserves the joints of the path: the curves emitted
\* for a curve that is not degenerate, of any variant and in any branch, are
\* a chain that starts at curve.at(0), ends at curve.at(1) and whose
\* consecutive pieces share their ends
C28_AsStated == Simplified28 => JointsPreserved(arg[1], ret)

\* the joints are preserved for lines, for arcs, for the quadratic curves
\* that are not cut at a NaN parameter and for the cubic curves outside the
\* branch of the cubic curves that should be quadratic
C28_OtherBranches ==
  (/\ Simplified28
   /\ arg[1].kind = "CubicBezier" => cubic_branch(arg[1]) # "quadratic"
   /\ \A i \in DOMAIN ret : ret[i].kind = "Line" => ret[i].a # NaNPoint)
    => JointsPreserved(arg[1], ret)

\* a cubic curve that should be a quadratic one is emitted as a quadratic
\* curve that ends at its control point c, not at its end d
C28_QuadraticEndsAtC ==
  (Simplified28 /\ arg[1].kind = "CubicBezier" /\ cubic_branch(arg[1]) = "quadratic")
    => /\ Len(ret) = 1
       /\ Curve_end(ret[1]) = arg[1].c
       /\ (arg[1].c # arg[1].d => ~JointsPreserved(arg[1], ret))

\* a quadratic curve whose control points are on one vertical line is cut at
\* a point that is not a number
C28_VerticalCutAtNaN ==
  (/\ Simplified28
   /\ arg[1].kind = "QuadraticBezier"
   /\ arg[1].a # arg[1].b /\ arg[1].b # arg[1].c
   /\ arg[1].a[1] = arg[1].b[1] /\ arg[1].b[1] = arg[1].c[1])
    => /\ Len(ret) = 2
       /\ ret[1].b = NaNPoint /\ ret[2].a = NaNPoint

\* ---------------------------------------------------------------------------
\* build_polygon_and_curves (path/compiled_drawing.rs) on contours of lines
\* and quadratic curves, fused curves included
\* ---------------------------------------------------------------------------

\* line.rs 50-52 and quadratic_bezier.rs 79-81
Curve_enclosing_polygon(curve) ==
  IF curve.kind = "Line" THEN <<curve.a, curve.b>> ELSE <<curve.a, curve.b, curve.c>>

\* vec2.rs 54-57: canonical(a, b) is Less
canonical_less(a, b) ==
  IF a[2] = b[2] THEN QLess(b[1], a[1]) ELSE QLess(a[2], b[2])

RECURSIVE canonical_insert(_, _)
canonical_insert(s, p) ==
  IF s = <<>> THEN <<p>>
  ELSE IF canonical_less(p, Head(s)) THEN <<p>> \o s
  ELSE <<Head(s)>> \o canonical_insert(Tail(s), p)

\* points.sort_by(canonical), a stable sort
RECURSIVE canonical_sort(_)
canonical_sort(s) ==
  IF s = <<>> THEN <<>>
  ELSE canonical_insert(canonical_sort(SubSeq(s, 1, Len(s) - 1)), s[Len(s)])

\* Vec::dedup
RECURSIVE dedup(_)
dedup(s) ==
  IF Len(s) < 2 THEN s
  ELSE IF s[1] = s[2] THEN dedup(Tail(s))
  ELSE <<s[1]>> \o dedup(Tail(s))

ReverseSeq(s) == [i \in 1 .. Len(s) |-> s[Len(s) + 1 - i]]

\* polygon.rs 172-179: the vertices rolled back, then p added
RECURSIVE hull_add(_, _, _)
hull_add(hull, old_len, p) ==
  IF /\ Len(hull) > old_len + 1
     /\ QSign(VCross(VSub(hull[Len(hull)], hull[Len(hull) - 1]),
                     VSub(p, hull[Len(hull)]))) >= 0
  THEN hull_add(SubSeq(hull, 1, Len(hull) - 1), old_len, p)
  ELSE Append(hull, p)

RECURSIVE hull_run(_, _, _, _)
hull_run(hull, old_len, points, i) ==
  IF i > Len(points) THEN hull
  ELSE hull_run(hull_add(hull, old_len, points[i]), old_len, points, i + 1)

\* polygon.rs 164-183: one of the two runs through the points, which are two
\* or more
hull_pass(hull, points) ==
  With(hull_run(hull \o <<points[1], points[2]>>, Len(hull), points, 3), LAMBDA h :
    SubSeq(h, 1, Len(h) - 1))

\* polygon.rs 157-187
convex_hull(points) ==
  With(dedup(canonical_sort(points)), LAMBDA pts :
    ReverseSeq(hull_pass(hull_pass(<<>>, pts), ReverseSeq(pts))))

\* curve_vertices.rs 14-25, for a quadratic curve
Curve_vertices(curve) ==
  With(QInt(IF Curve_is_convex(curve) THEN 1 ELSE -1), LAMBDA sign :
    << [pos |-> curve.a, tex |-> <<QInt(0), QInt(0), QInt(1), sign>>],
       [pos |-> curve.b, tex |-> <<QInt(0), Q(1, 2), QInt(1), sign>>],
       [pos |-> curve.c, tex |-> <<QInt(1), QInt(1), QInt(1), sign>>] >>)

\* curve_vertices.rs 176-178
combined_windings(c1, c2) ==
  QAdd(QAdd(Curve_winding(c1), VCross(Curve_at(c1, <<1, 1>>), Curve_at(c2, <<0, 1>>))),
       QAdd(Curve_winding(c2), VCross(Curve_at(c2, <<1, 1>>), Curve_at(c1, <<0, 1>>))))

\* curve_vertices.rs 158-174
fuse_curve_vertices(c1, c2) ==
  With(Curve_vertices(c1), LAMBDA t1 :
  With(Curve_vertices(c2), LAMBDA t2 :
  With(convex_hull([i \in 1 .. 6 |-> (t1 \o t2)[i].pos]), LAMBDA hull :
    [k \in 1 .. Len(hull) |->
       DoubleCurveVertex(hull[k],
                         coord_extrapolator(t1, hull[k]).tex,
                         coord_extrapolator(t2, hull[k]).tex,
                         QSign(combined_windings(c1, c2)) < 0)])))

\* CurveTriangle::new and DoubleCurveTriangle::new, subdivision_structs.rs
\* 45-48 and 70-73
FanTriangle(a, b, c) ==
  IF QSign(VCross(VSub(b.pos, a.pos), VSub(c.pos, a.pos))) < 0
  THEN [a |-> a, b |-> c, c |-> b]
  ELSE [a |-> a, b |-> b, c |-> c]

\* CurveVertex::make_triangle_fan and DoubleCurveVertex::make_triangle_fan,
\* subdivision_structs.rs 33-36 and 58-61
triangle_fan(vs) == [i \in 1 .. Len(vs) - 2 |-> FanTriangle(vs[1], vs[i + 1], vs[i + 2])]

\* what build_polygon_and_curves has built: the polygon, the triangles added
\* to curve_triangles and to double_curve_triangles and, for each fan added,
\* the places (from 0) in the contour of the curves that the fan is of
BuiltOf(list, curve_triangles, double_curve_triangles, fans, panic) ==
  [list |-> list, curve_triangles |-> curve_triangles,
   double_curve_triangles |-> double_curve_triangles, fans |-> fans, panic |-> panic]

\* compiled_drawing.rs 100-110: the points of hull from endp0 clockwise; none
\* when endp0 is not a vertex of the hull
hull_from(hull, endp0) ==
  IF \A i \in 1 .. Len(hull) : hull[i] # endp0 THEN <<>>
  ELSE With(CHOOSE i \in 1 .. Len(hull) :
              hull[i] = endp0 /\ \A j \in 1 .. i - 1 : hull[j] # endp0, LAMBDA iv :
         ReverseSeq(SubSeq(hull, iv + 1, Len(hull)) \o SubSeq(hull, 1, iv)))

hull_points(c1, c2) ==
  hull_from(convex_hull(Curve_enclosing_polygon(c1) \o Curve_enclosing_polygon(c2)),
            Curve_at(c1, <<0, 1>>))

\* compiled_drawing.rs 96-110: the points added to the list for the fused
\* curves c1 and c2 with the combined windings w; none stands for the panic
\* of unwrap()
fused_points(c1, c2, w) ==
  IF w > 0 THEN <<Curve_at(c2, <<1, 1>>)>> ELSE hull_points(c1, c2)

\* compiled_drawing.rs 89-112: the curves at i and i + 1 (from 0) are fused
fused_step(contour, i, out) ==
  With(fused_points(contour[i + 1], contour[i + 2],
                    QSign(combined_windings(contour[i + 1], contour[i + 2]))), LAMBDA points :
    BuiltOf(out.list \o points,
            out.curve_triangles,
            out.double_curve_triangles
              \o triangle_fan(fuse_curve_vertices(contour[i + 1], contour[i + 2])),
            Append(out.fans, <<i, i + 1>>),
            out.panic \/ points = <<>>))

\* compiled_drawing.rs 113-121: the curve at i (from 0) on its own
single_step(contour, i, out) ==
  With(contour[i + 1], LAMBDA c :
    BuiltOf(IF Curve_is_line(c) \/ Curve_is_convex(c)
            THEN Append(out.list, Curve_at(c, <<1, 1>>))
            ELSE out.list \o Tail(Curve_enclosing_polygon(c)),
          IF Curve_is_line(c) THEN out.curve_triangles
            ELSE out.curve_triangles \o triangle_fan(Curve_vertices(c)),
          out.double_curve_triangles,
          IF Curve_is_line(c) THEN out.fans ELSE Append(out.fans, <<i>>),
          out.panic))

\* compiled_drawing.rs 85-123: while i < contour.len() - k
RECURSIVE scan_contour(_, _, _, _)
scan_contour(contour, k, i, out) ==
  IF i >= Len(contour) - k THEN out
  ELSE IF i < Len(contour) - 1 /\ Curve_are_fusable(contour[i + 1], contour[i + 2])
  THEN scan_contour(contour, k, i + 2, fused_step(contour, i, out))
  ELSE scan_contour(contour, k, i + 1, single_step(contour, i, out))

\* compiled_drawing.rs 75: are_curves_fusable of the last and the first curve
last_first_join(contour) == Curve_are_fusable(contour[Len(contour)], contour[1])

\* compiled_drawing.rs 76-83: what is built before the scan
before_scan(contour, join) ==
  IF join
  THEN BuiltOf(<<Curve_at(contour[1], <<1, 1>>)>>, <<>>,
               triangle_fan(fuse_curve_vertices(contour[Len(contour)], contour[1])),
               << <<Len(contour) - 1, 0>> >>, FALSE)
  ELSE IF ~Curve_is_line(contour[1])
  THEN BuiltOf(<<>>, triangle_fan(Curve_vertices(contour[1])), <<>>, << <<0>> >>, FALSE)
  ELSE BuiltOf(<<>>, <<>>, <<>>, <<>>, FALSE)

\* compiled_drawing.rs 68-126; k is 1 when the last and the first curve are
\* fused and 0 otherwise
build_polygon_and_curves_of(contour) ==
  IF contour = <<>> THEN BuiltOf(<<>>, <<>>, <<>>, <<>>, FALSE)
  ELSE With(last_first_join(contour), LAMBDA join :
         With(IF join THEN 1 ELSE 0, LAMBDA k :
           scan_contour(contour, k, k, before_scan(contour, join))))

\* the contours built: closed chains of two or three curves through the
\* corners, each a line or a quadratic curve with one of the control points
ContourCorners == { <<0, 0>>, <<4, 1>>, <<4, 2>> }

ContourControls == { <<2, 0>>, <<2, 2>>, <<5, 0>> }

\* the curve from p to q: a line, or the quadratic curve with the control
\* point b
CurveBetween(p, q, b) == IF b = <<>> THEN QLine(p, q) ELSE QQuad(p, b, q)

MaxContour == 3

\* the closed chains of n curves through n corners
ContoursOf(n) ==
  { [i \in 1 .. n |-> CurveBetween(ps[i], ps[(i % n) + 1], bs[i])] :
      ps \in { s \in [1 .. n -> ContourCorners] : \A i, j \in 1 .. n : i # j => s[i] # s[j] },
      bs \in [1 .. n -> { <<>> } \cup ContourControls] }

BuiltContours == UNION { ContoursOf(n) : n \in 2 .. MaxContour }

InitBuild ==
  /\ vertices = [v \in VertexIds |-> {}]
  /\ edges = <<>>
  /\ faces = [i \in {0} |-> Face_outer]
  /\ calls = 0
  /\ last = [op |-> "new", v1 |-> 0, v2 |-> 0, branch |-> "", panic |-> ""]
  /\ pc = "contour"
  /\ arg \in BuiltContours
  /\ ret = <<>>

BuildPolygonAndCurves ==
  /\ pc = "contour"
  /\ \E built \in { build_polygon_and_curves_of(arg) } :
       /\ ret' = built
       /\ pc' = IF built.panic THEN "panic" ELSE "built"
  /\ UNCHANGED <<vertices, edges, faces, calls, last, arg>>

NextBuild == BuildPolygonAndCurves

SpecBuild == InitBuild /\ [][NextBuild]_vars

\* the number of the fans built that the curve at i (from 0) is of
FansOf(i) == Cardinality({ k \in DOMAIN ret.fans : \E j \in DOMAIN ret.fans[k] : ret.fans[k][j] = i })

\* C24: build_polygon_and_curves consumes every curve of a contour exactly
\* once: every curve that is not a line is of exactly one triangle fan, its
\* own or the double-curve fan it shares with its fusable partner, and every
\* line is of none, wherever the curve is in the contour
C24_AsStated ==
  pc = "built" =>
    \A i \in 0 .. Len(arg) - 1 :
      FansOf(i) = IF Curve_is_line(arg[i + 1]) THEN 0 ELSE 1

\* the first curve of a contour whose last and first curves are not fused is
\* of two fans when it is not a line: of its own fan before the scan, and of
\* the first fan of the scan
C24_FirstCurveTwice ==
  (pc = "built" /\ ~last_first_join(arg) /\ ~Curve_is_line(arg[1])) =>
    /\ FansOf(0) = 2
    /\ ret.fans[1] = <<0>>
    /\ ret.fans[2] \in { <<0>>, <<0, 1>> }

\* every line is of no fan, and every curve after the first is of one fan
\* or, when it is fused with the curves on both its sides, of two
C24_Elsewhere ==
  pc = "built" =>
    \A i \in 0 .. Len(arg) - 1 :
      /\ Curve_is_line(arg[i + 1]) => FansOf(i) = 0
      /\ (i > 0 /\ ~Curve_is_line(arg[i + 1])) => FansOf(i) \in { 1, 2 }
      /\ (i > 0 /\ FansOf(i) = 2) =>
           /\ Curve_are_fusable(arg[i], arg[i + 1])
           /\ Curve_are_fusable(arg[i + 1], arg[((i + 1) % Len(arg)) + 1])

\* the triangles built are those of the fans: one triangle for each fan of a
\* single curve
C24_FansAreTriangles ==
  pc = "built" =>
    Len(ret.curve_triangles) = Cardinality({ k \in DOMAIN ret.fans : Len(ret.fans[k]) = 1 })

====
